---- MODULE Spec2Model ----
(***************************************************************************)
(* The indexed table storage engine of regen-ledger (package orm) as used  *)
(* by the group module's server: primary-key tables, an auto-increment     *)
(* table with its sequence, and their secondary indexes, all living in one *)
(* ordered byte-keyed key-value store.                                     *)
(*                                                                         *)
(* Byte strings are sequences of numbers 0..255.  The key-value store is a *)
(* function from keys (byte strings that start with the one-byte prefix of *)
(* a table, an index or a sequence) to values.                             *)
(***************************************************************************)
EXTENDS Integers, Sequences, FiniteSets, TLC

VARIABLES
    store,      \* the key-value store: key (byte string) -> value
    op,         \* the last operation: its name, arguments, error and result
    issued,     \* the greatest value next() of the group table's sequence returned
    handed,     \* rowIDs the auto-increment table has assigned by create
    freed       \* rowIDs of the auto-increment table freed by delete

vars == <<store, op, issued, handed, freed>>

----------------------------------------------------------------------------
(* Bounds of the model *)

\* the sequences are driven up to this value
MaxSeq == 3
\* an import replays at most this many records
MaxImport == 1
\* the short byte strings offered to the codecs have at most this many bytes
MaxBytesLen == 2
\* a primary key has at most this many fields
MaxFields == 2

----------------------------------------------------------------------------
(* Byte helpers *)

\* the outcome of a Go panic, as a value no byte string equals
Panic == <<-1>>

\* Go's copy(dst[off:], src): src over dst from 0-based offset off, cut to fit
copy(dst, off, src) ==
    [i \in 1..Len(dst) |->
        IF i > off /\ i - off <= Len(src) THEN src[i - off] ELSE dst[i]]

\* make([]byte, n)
zeros(n) == [i \in 1..n |-> 0]

HasPrefix(k, p) == Len(k) >= Len(p) /\ SubSeq(k, 1, Len(p)) = p

\* bytes.Compare(a, b) < 0
RECURSIVE BytesLess(_, _)
BytesLess(a, b) ==
    IF b = <<>> THEN FALSE
    ELSE IF a = <<>> THEN TRUE
    ELSE IF a[1] # b[1] THEN a[1] < b[1]
    ELSE BytesLess(Tail(a), Tail(b))

\* binary.BigEndian.PutUint64 on n bytes, by repeated division
RECURSIVE bigEndian(_, _)
bigEndian(v, n) ==
    IF n = 0 THEN <<>> ELSE Append(bigEndian(v \div 256, n - 1), v % 256)

\* binary.BigEndian.Uint64
RECURSIVE fromBigEndian(_)
fromBigEndian(bz) ==
    IF bz = <<>> THEN 0
    ELSE fromBigEndian(SubSeq(bz, 1, Len(bz) - 1)) * 256 + bz[Len(bz)]

EncodedSeqLength == 8

EncodeSequence(val) == bigEndian(val, EncodedSeqLength)

DecodeSequence(bz) == fromBigEndian(bz)

AddLengthPrefix_LenOmitted(bytes) ==
    IF Len(bytes) > 255 THEN Panic ELSE <<0>> \o bytes

AddLengthPrefix(bytes) ==
    IF Len(bytes) > 255 THEN Panic
    ELSE copy(copy(zeros(1 + Len(bytes)), 0, <<Len(bytes) % 256>>), 1, bytes)

\* the string's bytes with no terminator appended
NullTerminatedBytes_NoTerminator(s) == copy(zeros(Len(s)), 0, s)

NullTerminatedBytes(s) == copy(zeros(Len(s) + 1), 0, s)

----------------------------------------------------------------------------
(* Primary-key encoder.  A field is [kind |-> "bytes" | "string" | "uint64" *)
(* | other, val |-> its bytes, num |-> its number]; a string is given by    *)
(* its UTF-8 bytes, and val is empty for a number, num 0 for bytes.         *)

\* binary.LittleEndian.PutUint64 on n bytes
RECURSIVE littleEndian(_, _)
littleEndian(v, n) ==
    IF n = 0 THEN <<>> ELSE <<v % 256>> \o littleEndian(v \div 256, n - 1)

\* the encoder with integers written least significant byte first
primaryKeyFieldBytes_LittleEndian(field) ==
    CASE field.kind = "bytes"  -> AddLengthPrefix(field.val)
      [] field.kind = "string" -> NullTerminatedBytes(field.val)
      [] field.kind = "uint64" -> littleEndian(field.num, EncodedSeqLength)
      [] OTHER                 -> Panic

primaryKeyFieldBytes(field) ==
    CASE field.kind = "bytes"  -> AddLengthPrefix(field.val)
      [] field.kind = "string" -> NullTerminatedBytes(field.val)
      [] field.kind = "uint64" -> EncodeSequence(field.num)
      [] OTHER                 -> Panic

RECURSIVE concatAll(_)
concatAll(bytesSlice) ==
    IF bytesSlice = <<>> THEN <<>>
    ELSE bytesSlice[1] \o concatAll(Tail(bytesSlice))

buildPrimaryKey(fields) ==
    LET bytesSlice == [i \in 1..Len(fields) |-> primaryKeyFieldBytes(fields[i])]
    IN  IF \E i \in 1..Len(fields) : bytesSlice[i] = Panic THEN Panic
        ELSE concatAll(bytesSlice)

----------------------------------------------------------------------------
(* Index key codecs *)

Max255DynamicLengthIndexKeyCodec_BuildIndexKey_RowIDLen(searchableKey, rowID) ==
    IF Len(rowID) = 0 THEN Panic
    ELSE <<Len(rowID) % 256>> \o searchableKey \o rowID

Max255DynamicLengthIndexKeyCodec_BuildIndexKey(searchableKey, rowID) ==
    LET rowIDLen         == Len(rowID)
        searchableKeyLen == Len(searchableKey)
        prefixed         == AddLengthPrefix(searchableKey)
    IN  IF rowIDLen = 0 THEN Panic
        ELSE IF prefixed = Panic THEN Panic
        ELSE copy(copy(zeros(1 + searchableKeyLen + rowIDLen), 0, prefixed),
                  1 + searchableKeyLen, rowID)

\* searchableKeyLen is a byte, and so is 1+searchableKeyLen: it wraps at 256
Max255DynamicLengthIndexKeyCodec_StripRowID(persistentIndexKey) ==
    IF persistentIndexKey = <<>> THEN Panic
    ELSE LET searchableKeyLen == persistentIndexKey[1]
             from == (1 + searchableKeyLen) % 256
         IN  IF from > Len(persistentIndexKey) THEN Panic
             ELSE SubSeq(persistentIndexKey, from + 1, Len(persistentIndexKey))

\* the fixed-length codec without the check of the rowID against rowIDLength
FixLengthIndexKeyCodec_BuildIndexKey_NoMaxCheck(rowIDLength, searchableKey, rowID) ==
    LET n == Len(searchableKey)
    IN  IF Len(rowID) = 0 THEN Panic
        ELSE copy(copy(zeros(n + rowIDLength), 0, searchableKey), n, rowID)

FixLengthIndexKeyCodec_BuildIndexKey(rowIDLength, searchableKey, rowID) ==
    LET n == Len(searchableKey)
    IN  IF Len(rowID) = 0 THEN Panic
        ELSE IF Len(rowID) > rowIDLength THEN Panic
        ELSE copy(copy(zeros(n + rowIDLength), 0, searchableKey), n, rowID)

FixLengthIndexKeyCodec_StripRowID(rowIDLength, persistentIndexKey) ==
    LET n == Len(persistentIndexKey)
    IN  IF n - rowIDLength < 0 THEN Panic
        ELSE SubSeq(persistentIndexKey, n - rowIDLength + 1, n)

----------------------------------------------------------------------------
(* Errors returned by the operations *)

OK == "OK"
ErrUniqueConstraint == "ErrUniqueConstraint"
ErrNotFound == "ErrNotFound"
ErrInvalidAddress == "ErrInvalidAddress"

----------------------------------------------------------------------------
(* Storage prefixes of the group module *)

GroupTablePrefix == 0
GroupTableSeqPrefix == 1
GroupByAdminIndexPrefix == 2
GroupAccountTablePrefix == 32
GroupAccountTableSeqPrefix == 33
GroupAccountByGroupIndexPrefix == 34
GroupAccountByAdminIndexPrefix == 35
\* a table that registers a unique index by admin
UniqueTablePrefix == 80
UniqueByAdminIndexPrefix == 81

----------------------------------------------------------------------------
(* The key-value store *)

EmptyStore == <<>>

Has(st, key) == key \in DOMAIN st

StoreSet(st, key, value) ==
    [k \in DOMAIN st \cup {key} |-> IF k = key THEN value ELSE st[k]]

StoreDelete(st, key) == [k \in DOMAIN st \ {key} |-> st[k]]

\* the keys of the prefix store of one-byte prefix p, with the prefix cut off
PrefixStoreKeys(st, p) ==
    {Tail(k) : k \in {x \in DOMAIN st : Len(x) >= 1 /\ x[1] = p}}

----------------------------------------------------------------------------
(* Addresses.  An address string is "addrA", "addrB" or a string that is   *)
(* no bech32 address.                                                      *)

AccAddressFromBech32(address) ==
    CASE address = "addrA" -> [err |-> OK, bytes |-> <<10>>]
      [] address = "addrB" -> [err |-> OK, bytes |-> <<11, 12>>]
      [] OTHER             -> [err |-> ErrInvalidAddress, bytes |-> <<>>]

----------------------------------------------------------------------------
(* Index extraction functions registered in newServer *)

\* the indexer of the group table keyed by the group id, not the admin
groupByAdminIndexer_ByGroupId(val) ==
    [err |-> OK, keys |-> <<EncodeSequence(val.GroupId)>>]

groupByAdminIndexer(val) ==
    LET addr == AccAddressFromBech32(val.Admin)
    IN  IF addr.err # OK THEN [err |-> addr.err, keys |-> <<>>]
        ELSE [err |-> OK, keys |-> <<addr.bytes>>]

groupAccountByGroupIndexer(value) ==
    [err |-> OK, keys |-> <<EncodeSequence(value.GroupId)>>]

groupAccountByAdminIndexer_WrongField(value) ==
    LET addr == AccAddressFromBech32(value.Address)
    IN  IF addr.err # OK THEN [err |-> addr.err, keys |-> <<>>]
        ELSE [err |-> OK, keys |-> <<addr.bytes>>]

groupAccountByAdminIndexer(value) ==
    LET addr == AccAddressFromBech32(value.Admin)
    IN  IF addr.err # OK THEN [err |-> addr.err, keys |-> <<>>]
        ELSE [err |-> OK, keys |-> <<addr.bytes>>]

indexerFunc(idx, value) ==
    CASE idx.indexer = "groupByAdmin"        -> groupByAdminIndexer(value)
      [] idx.indexer = "groupAccountByGroup" -> groupAccountByGroupIndexer(value)
      [] idx.indexer = "groupAccountByAdmin" -> groupAccountByAdminIndexer(value)

----------------------------------------------------------------------------
(* Tables and their indexes as newServer builds them *)

DynamicCodec == [kind |-> "dynamic", rowIDLength |-> 0]
FixLengthIndexKeys(rowIDLength) == [kind |-> "fix", rowIDLength |-> rowIDLength]

groupByAdminIndex ==
    [prefix |-> GroupByAdminIndexPrefix, unique |-> FALSE, indexer |-> "groupByAdmin"]

\* the group table with its sequence placed under the table's own prefix
groupTable_SeqPrefixClash ==
    [prefix   |-> GroupTablePrefix,
     seq      |-> GroupTablePrefix,
     codec    |-> FixLengthIndexKeys(EncodedSeqLength),
     indexes  |-> <<groupByAdminIndex>>]

groupTable ==
    [prefix   |-> GroupTablePrefix,
     seq      |-> GroupTableSeqPrefix,
     codec    |-> FixLengthIndexKeys(EncodedSeqLength),
     indexes  |-> <<groupByAdminIndex>>]

groupAccountByGroupIndex ==
    [prefix |-> GroupAccountByGroupIndexPrefix, unique |-> FALSE,
     indexer |-> "groupAccountByGroup"]

groupAccountByAdminIndex ==
    [prefix |-> GroupAccountByAdminIndexPrefix, unique |-> FALSE,
     indexer |-> "groupAccountByAdmin"]

groupAccountTable ==
    [prefix   |-> GroupAccountTablePrefix,
     codec    |-> DynamicCodec,
     indexes  |-> <<groupAccountByGroupIndex, groupAccountByAdminIndex>>]

uniqueByAdminIndex ==
    [prefix |-> UniqueByAdminIndexPrefix, unique |-> TRUE,
     indexer |-> "groupAccountByAdmin"]

uniqueTable ==
    [prefix   |-> UniqueTablePrefix,
     codec    |-> DynamicCodec,
     indexes  |-> <<uniqueByAdminIndex>>]

----------------------------------------------------------------------------
(* Index key codec, by strategy *)

BuildIndexKey(codec, searchableKey, rowID) ==
    IF codec.kind = "dynamic"
    THEN Max255DynamicLengthIndexKeyCodec_BuildIndexKey(searchableKey, rowID)
    ELSE FixLengthIndexKeyCodec_BuildIndexKey(codec.rowIDLength, searchableKey, rowID)

StripRowID(codec, persistentIndexKey) ==
    IF codec.kind = "dynamic"
    THEN Max255DynamicLengthIndexKeyCodec_StripRowID(persistentIndexKey)
    ELSE FixLengthIndexKeyCodec_StripRowID(codec.rowIDLength, persistentIndexKey)

\* the prefix that all index keys of one searchable key share
makeIndexPrefixScanKey(codec, searchKey) ==
    IF codec.kind = "dynamic" THEN AddLengthPrefix(searchKey) ELSE searchKey

----------------------------------------------------------------------------
(* Secondary index *)

\* Index.Get: the rowIDs a prefix scan by searchKey finds
IndexGet(st, idx, codec, searchKey) ==
    {StripRowID(codec, k) :
        k \in {x \in PrefixStoreKeys(st, idx.prefix) :
                  HasPrefix(x, makeIndexPrefixScanKey(codec, searchKey))}}

IndexHasAny(st, idx, codec, searchKey) == IndexGet(st, idx, codec, searchKey) # {}

indexKey(idx, codec, searchKey, rowID) ==
    <<idx.prefix>> \o BuildIndexKey(codec, searchKey, rowID)

\* add one index entry; a unique index refuses a key mapped to another rowID
addFunc(st, idx, codec, searchKey, rowID) ==
    IF idx.unique /\ IndexGet(st, idx, codec, searchKey) \ {rowID} # {}
    THEN [err |-> ErrUniqueConstraint, st |-> st]
    ELSE [err |-> OK, st |-> StoreSet(st, indexKey(idx, codec, searchKey, rowID), <<>>)]

RECURSIVE addKeys(_, _, _, _, _)
addKeys(st, idx, codec, keys, rowID) ==
    IF keys = <<>> THEN [err |-> OK, st |-> st]
    ELSE LET r == addFunc(st, idx, codec, keys[1], rowID)
         IN  IF r.err # OK THEN r
             ELSE addKeys(r.st, idx, codec, Tail(keys), rowID)

RECURSIVE removeKeys(_, _, _, _, _)
removeKeys(st, idx, codec, keys, rowID) ==
    IF keys = <<>> THEN st
    ELSE removeKeys(StoreDelete(st, indexKey(idx, codec, keys[1], rowID)),
                    idx, codec, Tail(keys), rowID)

\* the elements of a that are not in b, in a's order
difference(a, b) ==
    SelectSeq(a, LAMBDA x : \A i \in 1..Len(b) : b[i] # x)

OnCreate(st, idx, codec, rowID, value) ==
    LET ks == indexerFunc(idx, value)
    IN  IF ks.err # OK THEN [err |-> ks.err, st |-> st]
        ELSE addKeys(st, idx, codec, ks.keys, rowID)

OnDelete(st, idx, codec, rowID, value) ==
    LET ks == indexerFunc(idx, value)
    IN  IF ks.err # OK THEN [err |-> ks.err, st |-> st]
        ELSE [err |-> OK, st |-> removeKeys(st, idx, codec, ks.keys, rowID)]

OnUpdate(st, idx, codec, rowID, newValue, oldValue) ==
    LET old == indexerFunc(idx, oldValue)
        new == indexerFunc(idx, newValue)
    IN  IF old.err # OK THEN [err |-> old.err, st |-> st]
        ELSE IF new.err # OK THEN [err |-> new.err, st |-> st]
        ELSE addKeys(removeKeys(st, idx, codec, difference(old.keys, new.keys), rowID),
                     idx, codec, difference(new.keys, old.keys), rowID)

----------------------------------------------------------------------------
(* Table engine *)

rowKey(t, rowID) == <<t.prefix>> \o rowID

\* the rowIDs stored in table t
RowIDs(st, t) == PrefixStoreKeys(st, t.prefix)

tableHas(st, t, rowID) == Has(st, rowKey(t, rowID))

tableGetOne(st, t, rowID) ==
    IF ~tableHas(st, t, rowID) THEN [err |-> ErrNotFound, ret |-> <<>>]
    ELSE [err |-> OK, ret |-> st[rowKey(t, rowID)]]

\* the index callbacks registered with the table, run in registration order
RECURSIVE afterCreate(_, _, _, _, _)
afterCreate(st, t, i, rowID, value) ==
    IF i > Len(t.indexes) THEN [err |-> OK, st |-> st]
    ELSE LET r == OnCreate(st, t.indexes[i], t.codec, rowID, value)
         IN  IF r.err # OK THEN r ELSE afterCreate(r.st, t, i + 1, rowID, value)

RECURSIVE afterUpdate(_, _, _, _, _, _)
afterUpdate(st, t, i, rowID, newValue, oldValue) ==
    IF i > Len(t.indexes) THEN [err |-> OK, st |-> st]
    ELSE LET r == OnUpdate(st, t.indexes[i], t.codec, rowID, newValue, oldValue)
         IN  IF r.err # OK THEN r
             ELSE afterUpdate(r.st, t, i + 1, rowID, newValue, oldValue)

RECURSIVE afterDelete(_, _, _, _, _)
afterDelete(st, t, i, rowID, oldValue) ==
    IF i > Len(t.indexes) THEN [err |-> OK, st |-> st]
    ELSE LET r == OnDelete(st, t.indexes[i], t.codec, rowID, oldValue)
         IN  IF r.err # OK THEN r ELSE afterDelete(r.st, t, i + 1, rowID, oldValue)

atomically_PartialWrites(before, r) == r

\* the record write and its index maintenance are all-or-nothing: a failed
\* operation leaves the store as it was before the call
atomically(before, r) ==
    IF r.err # OK THEN [err |-> r.err, st |-> before] ELSE r

tableCreate(st, t, rowID, obj) ==
    IF tableHas(st, t, rowID) THEN [err |-> ErrUniqueConstraint, st |-> st]
    ELSE atomically(st, afterCreate(StoreSet(st, rowKey(t, rowID), obj),
                                    t, 1, rowID, obj))

tableUpdate(st, t, rowID, newValue) ==
    IF ~tableHas(st, t, rowID) THEN [err |-> ErrNotFound, st |-> st]
    ELSE atomically(st, afterUpdate(StoreSet(st, rowKey(t, rowID), newValue),
                                    t, 1, rowID, newValue, st[rowKey(t, rowID)]))

tableSet(st, t, rowID, newValue) ==
    IF tableHas(st, t, rowID)
    THEN atomically(st, afterUpdate(StoreSet(st, rowKey(t, rowID), newValue),
                                    t, 1, rowID, newValue, st[rowKey(t, rowID)]))
    ELSE atomically(st, afterCreate(StoreSet(st, rowKey(t, rowID), newValue),
                                    t, 1, rowID, newValue))

tableDelete(st, t, rowID) ==
    IF ~tableHas(st, t, rowID) THEN [err |-> ErrNotFound, st |-> st]
    ELSE atomically(st, afterDelete(StoreDelete(st, rowKey(t, rowID)),
                                    t, 1, rowID, st[rowKey(t, rowID)]))

\* Import's first half: every row of the table deleted
RECURSIVE tableClear(_, _)
tableClear(st, t) ==
    IF RowIDs(st, t) = {} THEN [err |-> OK, st |-> st]
    ELSE LET rowID == CHOOSE r \in RowIDs(st, t) : TRUE
             rest(d) == IF d.err # OK THEN d ELSE tableClear(d.st, t)
         IN  CHOOSE r \in {rest(d) : d \in {tableDelete(st, t, rowID)}} : TRUE

----------------------------------------------------------------------------
(* Primary-key table *)

\* GroupAccountInfo.PrimaryKeyFields: the account address, as bytes;
\* GroupInfo.PrimaryKeyFields: the group id
PrimaryKeyFields(obj) ==
    IF "Address" \in DOMAIN obj
    THEN <<[kind |-> "bytes", val |-> AccAddressFromBech32(obj.Address).bytes,
            num |-> 0]>>
    ELSE <<[kind |-> "uint64", val |-> <<>>, num |-> obj.GroupId]>>

PrimaryKey(obj) == buildPrimaryKey(PrimaryKeyFields(obj))

PrimaryKeyTable_Create_NoCheck(st, t, obj) == tableSet(st, t, PrimaryKey(obj), obj)

PrimaryKeyTable_Create(st, t, obj) == tableCreate(st, t, PrimaryKey(obj), obj)

PrimaryKeyTable_Update_NoCheck(st, t, newValue) ==
    tableSet(st, t, PrimaryKey(newValue), newValue)

PrimaryKeyTable_Update(st, t, newValue) ==
    tableUpdate(st, t, PrimaryKey(newValue), newValue)

PrimaryKeyTable_Set_CreateOnly(st, t, newValue) ==
    tableCreate(st, t, PrimaryKey(newValue), newValue)

PrimaryKeyTable_Set(st, t, newValue) ==
    tableSet(st, t, PrimaryKey(newValue), newValue)

PrimaryKeyTable_Delete(st, t, obj) == tableDelete(st, t, PrimaryKey(obj))

PrimaryKeyTable_Has(st, t, primaryKey) == tableHas(st, t, primaryKey)

PrimaryKeyTable_GetOne(st, t, primKey) == tableGetOne(st, t, primKey)

\* table.Import's second half: the records of data created one by one
RECURSIVE importRows(_, _, _)
importRows(st, t, data) ==
    IF data = <<>> THEN [err |-> OK, st |-> st]
    ELSE LET rest(c) == IF c.err # OK THEN c ELSE importRows(c.st, t, Tail(data))
         IN  CHOOSE r \in {rest(c) : c \in {tableCreate(st, t, PrimaryKey(data[1]), data[1])}} :
                 TRUE

tableImport(st, t, data) ==
    LET cleared == tableClear(st, t)
    IN  IF cleared.err # OK THEN [err |-> cleared.err, st |-> st]
        ELSE atomically(st, importRows(cleared.st, t, data))

PrimaryKeyTable_Import(st, t, data, seqValue) == tableImport(st, t, data)

\* the rowIDs of a set in the order of the store's iterator
inKeyOrder(rowIDs) ==
    [i \in 1..Cardinality(rowIDs) |->
        CHOOSE r \in rowIDs :
            Cardinality({o \in rowIDs : BytesLess(o, r)}) = i - 1]

\* table.Export: every row of the table, in key order
tableExport(st, t) ==
    LET ids == inKeyOrder(RowIDs(st, t))
    IN  [i \in 1..Len(ids) |-> st[rowKey(t, ids[i])]]

\* a primary-key table has no sequence: the sequence value exported is 0
PrimaryKeyTable_Export(st, t) == [data |-> tableExport(st, t), seq |-> 0]

----------------------------------------------------------------------------
(* Inputs of the operations *)

GroupIds == {1, 2}

AddressStrings == {"addrA", "addrB"}
AdminStrings   == {"addrA", "addrB", "bad"}

\* the records offered to the primary-key tables
GroupAccountInfos ==
    [Address : AddressStrings, GroupId : GroupIds, Admin : AdminStrings]

SeqsUpTo(S, n) == UNION {[1..k -> S] : k \in 0..n}

\* Delete reads only the primary key of its argument
KeyOnlyInfos == {o \in GroupAccountInfos : o.GroupId = 1 /\ o.Admin = "addrA"}

NoObj == [none |-> TRUE]

----------------------------------------------------------------------------
(* Operations on a primary-key table, one action per call.  op records the *)
(* call: its name, the table, the argument and its rowID, whether a record *)
(* was stored under that rowID when the call began (and which), the error  *)
(* returned and the result.                                                *)

Call(name, t, obj, err, ret) ==
    [name    |-> name,
     tbl     |-> t.prefix,
     rowID   |-> PrimaryKey(obj),
     obj     |-> obj,
     existed |-> tableHas(store, t, PrimaryKey(obj)),
     old     |-> IF tableHas(store, t, PrimaryKey(obj))
                 THEN store[rowKey(t, PrimaryKey(obj))] ELSE NoObj,
     err     |-> err,
     ret     |-> ret]

Init ==
    /\ store = EmptyStore
    /\ op = [name |-> "init", tbl |-> 0, rowID |-> <<>>, obj |-> NoObj,
             existed |-> FALSE, old |-> NoObj, err |-> OK, ret |-> <<>>]
    /\ issued = 0
    /\ handed = {}
    /\ freed = {}

Create(t, obj) ==
    LET r == PrimaryKeyTable_Create(store, t, obj)
    IN  /\ store' = r.st
        /\ op' = Call("create", t, obj, r.err, <<>>)
        /\ UNCHANGED <<issued, handed, freed>>

Update(t, newValue) ==
    LET r == PrimaryKeyTable_Update(store, t, newValue)
    IN  /\ store' = r.st
        /\ op' = Call("update", t, newValue, r.err, <<>>)
        /\ UNCHANGED <<issued, handed, freed>>

Set(t, newValue) ==
    LET r == PrimaryKeyTable_Set(store, t, newValue)
    IN  /\ store' = r.st
        /\ op' = Call("set", t, newValue, r.err, <<>>)
        /\ UNCHANGED <<issued, handed, freed>>

Delete(t, obj) ==
    LET r == PrimaryKeyTable_Delete(store, t, obj)
    IN  /\ store' = r.st
        /\ op' = Call("delete", t, obj, r.err, <<>>)
        /\ UNCHANGED <<issued, handed, freed>>

GetOne(t, obj) ==
    LET r == PrimaryKeyTable_GetOne(store, t, PrimaryKey(obj))
    IN  /\ op' = Call("getOne", t, obj, r.err, r.ret)
        /\ UNCHANGED <<store, issued, handed, freed>>

HasRow(t, obj) ==
    /\ op' = Call("has", t, obj, OK, PrimaryKeyTable_Has(store, t, PrimaryKey(obj)))
    /\ UNCHANGED <<store, issued, handed, freed>>

Import(t, data, seqValue) ==
    LET r == PrimaryKeyTable_Import(store, t, data, seqValue)
    IN  /\ store' = r.st
        /\ op' = [name |-> "import", tbl |-> t.prefix, rowID |-> <<>>,
                  obj |-> data, existed |-> FALSE, old |-> NoObj,
                  err |-> r.err, ret |-> seqValue]
        \* the rowID history starts over with the imported state
        /\ handed' = IF r.err = OK THEN {} ELSE handed
        /\ freed' = IF r.err = OK THEN {} ELSE freed
        /\ UNCHANGED issued

TableNext(t) ==
    \/ \E obj \in GroupAccountInfos : Create(t, obj)
    \/ \E obj \in GroupAccountInfos : Update(t, obj)
    \/ \E obj \in GroupAccountInfos : Set(t, obj)
    \/ \E obj \in KeyOnlyInfos : Delete(t, obj)
    \/ \E obj \in KeyOnlyInfos : GetOne(t, obj)
    \/ \E obj \in KeyOnlyInfos : HasRow(t, obj)
    \/ \E data \in SeqsUpTo(GroupAccountInfos, MaxImport) : Import(t, data, MaxSeq)

\* the group account table of the group module
Next == TableNext(groupAccountTable)

Spec == Init /\ [][Next]_vars

\* a primary-key table with a unique index
NextUnique == TableNext(uniqueTable)

SpecUnique == Init /\ [][NextUnique]_vars

----------------------------------------------------------------------------
(* Reading the store back: what the claims speak about *)

KeySet(keys) == {keys[i] : i \in 1..Len(keys)}

\* the searchable key held in a persisted index key, by the byte layout
\* [1-byte len(searchKey)][searchKey][rowID] resp. [searchKey][rowID]
SearchKeyOf(codec, k) ==
    IF codec.kind = "dynamic"
    THEN IF k = <<>> \/ 1 + k[1] > Len(k) THEN Panic ELSE SubSeq(k, 2, 1 + k[1])
    ELSE IF Len(k) < codec.rowIDLength THEN Panic
         ELSE SubSeq(k, 1, Len(k) - codec.rowIDLength)

\* the persisted keys of index idx
IndexKeys(st, idx) == PrefixStoreKeys(st, idx.prefix)

\* the index entries (searchKey, rowID) of index idx
IndexEntries(st, idx, codec) ==
    {<<SearchKeyOf(codec, k), StripRowID(codec, k)>> : k \in IndexKeys(st, idx)}

\* the searchable keys under which index idx lists rowID
KeysOfRow(st, idx, codec, rowID) ==
    {e[1] : e \in {x \in IndexEntries(st, idx, codec) : x[2] = rowID}}

\* the index entries that refer to rows other than rowID
EntriesOfOthers(st, idx, codec, rowID) ==
    {e \in IndexEntries(st, idx, codec) : e[2] # rowID}

\* the records stored under rows other than rowID
RecordsOfOthers(st, t, rowID) ==
    [r \in RowIDs(st, t) \ {rowID} |-> st[rowKey(t, r)]]

Record(st, t, rowID) == st[rowKey(t, rowID)]

\* the searchable keys a record is to be found under in index idx
Extracted(idx, value) == KeySet(indexerFunc(idx, value).keys)

Indexes(t) == {t.indexes[i] : i \in 1..Len(t.indexes)}

\* a record with the primary key fields of obj is stored in t
StoredWithKeyFieldsOf(st, t, obj) ==
    \E r \in RowIDs(st, t) : Record(st, t, r).Address = obj.Address

AdminBytes(address) == AccAddressFromBech32(address).bytes

----------------------------------------------------------------------------
(* C1: in every reachable state an index entry (searchKey, rowID) exists   *)
(* in an index if and only if a record is stored under rowID and the       *)
(* index's extraction function applied to that record yields searchKey.    *)

IndexConsistent(st, t) ==
    \A idx \in Indexes(t) :
        /\ \A e \in IndexEntries(st, idx, t.codec) :
               /\ tableHas(st, t, e[2])
               /\ e[1] \in Extracted(idx, Record(st, t, e[2]))
        /\ \A r \in RowIDs(st, t) :
               \A sk \in Extracted(idx, Record(st, t, r)) :
                   /\ <<sk, r>> \in IndexEntries(st, idx, t.codec)
                   /\ r \in IndexGet(st, idx, t.codec, sk)

C1_IndexEntryIffRecordYieldsKey == IndexConsistent(store, groupAccountTable)

\* two rows are stored and indexed, the last call an update that moved one
C1_Witness ==
    /\ Cardinality(RowIDs(store, groupAccountTable)) = 2
    /\ Cardinality(IndexKeys(store, groupAccountByAdminIndex)) = 2
    /\ op.name = "update" /\ op.err = OK /\ op.old.Admin # op.obj.Admin

----------------------------------------------------------------------------
(* C2: create of an object whose primary key fields equal those of a       *)
(* stored record (so under a rowID that already holds a record) fails with *)
(* a uniqueness error, and the store - every record and every index entry  *)
(* - is the same after the failed call as before it.                       *)

C2_CreateOnExistingFails ==
    [][(op'.name = "create" /\ StoredWithKeyFieldsOf(store, groupAccountTable, op'.obj))
          => /\ op'.err = ErrUniqueConstraint
             /\ op'.existed
             /\ store' = store]_vars

\* a create of a different object was refused over a stored record
C2_Witness ==
    /\ op.name = "create" /\ op.err = ErrUniqueConstraint
    /\ tableHas(store, groupAccountTable, op.rowID)
    /\ Record(store, groupAccountTable, op.rowID) # op.obj
    /\ Record(store, groupAccountTable, op.rowID) = op.old

----------------------------------------------------------------------------
(* C3: update, delete and getOne for a rowID under which no record is      *)
(* stored each return a not-found error, and the failed call leaves the    *)
(* whole store unchanged: no record and no index entry is created.         *)

C3_MissingRowNotFound ==
    [][(op'.name \in {"update", "delete", "getOne"}
            /\ ~StoredWithKeyFieldsOf(store, groupAccountTable, op'.obj))
          => /\ op'.err = ErrNotFound
             /\ store' = store
             /\ ~tableHas(store', groupAccountTable, op'.rowID)]_vars

\* an update found no record for its key in a table that holds another row
C3_Witness ==
    /\ op.name = "update" /\ op.err = ErrNotFound
    /\ RowIDs(store, groupAccountTable) # {}
    /\ ~tableHas(store, groupAccountTable, op.rowID)

----------------------------------------------------------------------------
(* C4: a successful update changes each index by a diff: entries whose     *)
(* search key is derived from both the old and the new record stay,        *)
(* entries derived only from the old record are removed, entries derived   *)
(* only from the new record are added; when the admin changes from A to B, *)
(* lookup by A no longer yields the row and lookup by B yields it; index   *)
(* entries of all other rows are unchanged.                                *)

UpdateDiffs(t) ==
    (op'.name = "update" /\ op'.err = OK) =>
        /\ Record(store', t, op'.rowID) = op'.obj
        /\ \A idx \in Indexes(t) :
             LET old == Extracted(idx, op'.old)
                 new == Extracted(idx, op'.obj)
             IN  /\ \A sk \in old \cap new :
                        /\ indexKey(idx, t.codec, sk, op'.rowID) \in DOMAIN store
                        /\ indexKey(idx, t.codec, sk, op'.rowID) \in DOMAIN store'
                 /\ \A sk \in old \ new :
                        op'.rowID \notin IndexGet(store', idx, t.codec, sk)
                 /\ \A sk \in new \ old :
                        op'.rowID \in IndexGet(store', idx, t.codec, sk)
                 /\ EntriesOfOthers(store', idx, t.codec, op'.rowID)
                        = EntriesOfOthers(store, idx, t.codec, op'.rowID)

AdminMoves(t, idx) ==
    (op'.name = "update" /\ op'.err = OK /\ op'.old.Admin # op'.obj.Admin) =>
        /\ op'.rowID \notin IndexGet(store', idx, t.codec, AdminBytes(op'.old.Admin))
        /\ op'.rowID \in IndexGet(store', idx, t.codec, AdminBytes(op'.obj.Admin))

C4_UpdateIsIndexDiff ==
    [][/\ UpdateDiffs(groupAccountTable)
       /\ AdminMoves(groupAccountTable, groupAccountByAdminIndex)]_vars

\* an update changed the admin and kept the group of one of two rows
C4_Witness ==
    /\ op.name = "update" /\ op.err = OK
    /\ op.old.Admin = "addrA" /\ op.obj.Admin = "addrB"
    /\ op.old.GroupId = op.obj.GroupId
    /\ IndexGet(store, groupAccountByAdminIndex, DynamicCodec, AdminBytes("addrB"))
         = {op.rowID}
    /\ Cardinality(RowIDs(store, groupAccountTable)) = 2

----------------------------------------------------------------------------
(* C5: after a successful delete(rowID), has(rowID) is false and no index  *)
(* of the table holds an entry that refers to rowID, while the records and *)
(* index entries of every other rowID are unchanged.                       *)

C5_DeleteRemovesRowAndEntries ==
    [][(op'.name = "delete" /\ op'.err = OK)
          => /\ ~PrimaryKeyTable_Has(store', groupAccountTable, op'.rowID)
             /\ RecordsOfOthers(store', groupAccountTable, op'.rowID)
                    = RecordsOfOthers(store, groupAccountTable, op'.rowID)
             /\ \A idx \in Indexes(groupAccountTable) :
                    /\ KeysOfRow(store, idx, DynamicCodec, op'.rowID) # {}
                    /\ KeysOfRow(store', idx, DynamicCodec, op'.rowID) = {}
                    /\ \A sk \in Extracted(idx, op'.old) :
                           op'.rowID \notin IndexGet(store', idx, DynamicCodec, sk)
                    /\ EntriesOfOthers(store', idx, DynamicCodec, op'.rowID)
                           = EntriesOfOthers(store, idx, DynamicCodec, op'.rowID)]_vars

\* one of two rows was deleted; the other row and its index entries remain
C5_Witness ==
    /\ op.name = "delete" /\ op.err = OK /\ op.existed
    /\ Cardinality(RowIDs(store, groupAccountTable)) = 1
    /\ Cardinality(IndexKeys(store, groupAccountByAdminIndex)) = 1
    /\ Cardinality(IndexKeys(store, groupAccountByGroupIndex)) = 1

----------------------------------------------------------------------------
(* C6: set(rowID, record) succeeds whether or not a record is stored under *)
(* rowID (it fails only when the extraction function rejects the record),  *)
(* and after it the index entries that refer to rowID are exactly those    *)
(* derived from the new record: none derived only from the overwritten     *)
(* record remains.                                                         *)

C6_SetUpsertsAndDiffs ==
    (op.name = "set") =>
        /\ (AccAddressFromBech32(op.obj.Admin).err = OK) <=> (op.err = OK)
        /\ op.err = OK =>
             /\ PrimaryKeyTable_Has(store, groupAccountTable, op.rowID)
             /\ Record(store, groupAccountTable, op.rowID) = op.obj
             /\ KeysOfRow(store, groupAccountByAdminIndex, DynamicCodec, op.rowID)
                    = {AdminBytes(op.obj.Admin)}
             /\ KeysOfRow(store, groupAccountByGroupIndex, DynamicCodec, op.rowID)
                    = {EncodeSequence(op.obj.GroupId)}
             /\ op.existed =>
                    \A idx \in Indexes(groupAccountTable) :
                        \A sk \in Extracted(idx, op.old) \ Extracted(idx, op.obj) :
                            op.rowID \notin IndexGet(store, idx, DynamicCodec, sk)

\* a set overwrote a stored record and changed both indexed fields
C6_Witness ==
    /\ op.name = "set" /\ op.err = OK /\ op.existed
    /\ op.old.Admin # op.obj.Admin
    /\ op.old.GroupId # op.obj.GroupId

\* a set stored a record under a rowID that held none
C6_WitnessFresh ==
    /\ op.name = "set" /\ op.err = OK /\ ~op.existed
    /\ PrimaryKeyTable_Has(store, groupAccountTable, op.rowID)

----------------------------------------------------------------------------
(* C7: for a unique index, in every reachable state each search key maps   *)
(* to at most one rowID; a create or update whose record yields a search   *)
(* key that is already mapped to a different rowID fails with a uniqueness *)
(* error.                                                                  *)

UniqueKeys(st, t, idx) ==
    /\ \A e1, e2 \in IndexEntries(st, idx, t.codec) : e1[1] = e2[1] => e1[2] = e2[2]
    /\ \A r1, r2 \in RowIDs(st, t) :
           Record(st, t, r1).Admin = Record(st, t, r2).Admin => r1 = r2
    /\ \A a \in AddressStrings :
           Cardinality(IndexGet(st, idx, t.codec, AdminBytes(a))) <= 1

\* the admin of obj is the admin of a record stored under another rowID
AdminTaken(st, t, obj) ==
    \E r \in RowIDs(st, t) :
        /\ Record(st, t, r).Admin = obj.Admin
        /\ Record(st, t, r).Address # obj.Address

C7_UniqueIndexKeepsKeysUnique ==
    [][/\ UniqueKeys(store', uniqueTable, uniqueByAdminIndex)
       /\ (op'.name = "create" /\ AdminTaken(store, uniqueTable, op'.obj))
             => op'.err = ErrUniqueConstraint
       /\ (op'.name = "update" /\ op'.existed /\ AdminTaken(store, uniqueTable, op'.obj))
             => op'.err = ErrUniqueConstraint]_vars

\* an update to the admin of another row was refused; both rows are indexed
C7_Witness ==
    /\ op.name = "update" /\ op.err = ErrUniqueConstraint /\ op.existed
    /\ Cardinality(RowIDs(store, uniqueTable)) = 2
    /\ Cardinality(IndexKeys(store, uniqueByAdminIndex)) = 2

----------------------------------------------------------------------------
(* C8: index maintenance is all-or-nothing with the record write: when a   *)
(* create fails because a unique index rejects the record's search key or  *)
(* the extraction function fails, then after the call no record is stored  *)
(* under rowID and no index holds an entry for rowID; a failed update      *)
(* leaves the old record and its index entries in place.                   *)

----------------------------------------------------------------------------
(* Sequence: a persisted counter under a storage prefix *)

sequenceStorageKey == <<1>>

seqKey(prefix) == <<prefix>> \o sequenceStorageKey

\* the persisted value, 0 if absent
Sequence_CurVal(st, prefix) ==
    IF Has(st, seqKey(prefix)) THEN DecodeSequence(st[seqKey(prefix)]) ELSE 0

\* next(): read, add one, persist, return.  The counter is a uint64; the
\* model stops calling long before it could wrap.
Sequence_NextVal(st, prefix) ==
    LET val == Sequence_CurVal(st, prefix) + 1
    IN  [val |-> val, st |-> StoreSet(st, seqKey(prefix), EncodeSequence(val))]

Sequence_PeekNextVal(st, prefix) == Sequence_CurVal(st, prefix) + 1

\* import restores the sequence to seqValue
Sequence_InitVal(st, prefix, seqValue) ==
    StoreSet(st, seqKey(prefix), EncodeSequence(seqValue))

----------------------------------------------------------------------------
(* Auto-increment table: the table engine plus a dedicated sequence *)

AutoUInt64Table_Create(st, t, obj) ==
    LET n == Sequence_NextVal(st, t.seq)
        r == tableCreate(n.st, t, EncodeSequence(n.val), obj)
    IN  [err |-> r.err, st |-> r.st, id |-> n.val]

AutoUInt64Table_Update(st, t, rowID, newValue) ==
    tableUpdate(st, t, EncodeSequence(rowID), newValue)

AutoUInt64Table_Delete(st, t, rowID) == tableDelete(st, t, EncodeSequence(rowID))

AutoUInt64Table_Has(st, t, rowID) == tableHas(st, t, EncodeSequence(rowID))

AutoUInt64Table_Export(st, t) ==
    [data |-> tableExport(st, t), seq |-> Sequence_CurVal(st, t.seq)]

AutoUInt64Table_Import(st, t, data, seqValue) ==
    LET r == tableImport(st, t, data)
    IN  IF r.err # OK THEN [err |-> r.err, st |-> st]
        ELSE [err |-> OK, st |-> Sequence_InitVal(r.st, t.seq, seqValue)]

----------------------------------------------------------------------------
(* Operations on the group table *)

GroupInfos == [GroupId : 1..MaxSeq, Admin : AdminStrings]

Max(a, b) == IF a >= b THEN a ELSE b

AutoCall(name, rowID, obj, err, ret) ==
    [name    |-> name,
     tbl     |-> groupTable.prefix,
     rowID   |-> rowID,
     obj     |-> obj,
     existed |-> tableHas(store, groupTable, rowID),
     old     |-> IF tableHas(store, groupTable, rowID)
                 THEN store[rowKey(groupTable, rowID)] ELSE NoObj,
     err     |-> err,
     ret     |-> ret]

\* the caller fills in the id the sequence is about to hand out
AutoCreate(admin) ==
    /\ Sequence_CurVal(store, groupTable.seq) < MaxSeq
    /\ LET obj == [GroupId |-> Sequence_PeekNextVal(store, groupTable.seq),
                   Admin |-> admin]
           r   == AutoUInt64Table_Create(store, groupTable, obj)
       IN  /\ store' = r.st
           /\ op' = AutoCall("create", EncodeSequence(r.id), obj, r.err, r.id)
           /\ issued' = Max(issued, r.id)
           /\ handed' = IF r.err = OK THEN handed \cup {EncodeSequence(r.id)} ELSE handed
           /\ UNCHANGED freed

AutoUpdate(newValue) ==
    LET r == AutoUInt64Table_Update(store, groupTable, newValue.GroupId, newValue)
    IN  /\ store' = r.st
        /\ op' = AutoCall("update", EncodeSequence(newValue.GroupId), newValue, r.err, 0)
        /\ UNCHANGED <<issued, handed, freed>>

AutoDelete(rowID) ==
    LET r == AutoUInt64Table_Delete(store, groupTable, rowID)
    IN  /\ store' = r.st
        /\ op' = AutoCall("delete", EncodeSequence(rowID), NoObj, r.err, 0)
        /\ freed' = IF r.err = OK THEN freed \cup {EncodeSequence(rowID)} ELSE freed
        /\ UNCHANGED <<issued, handed>>

\* genesis import into the group table.  call is "import" for data and a
\* sequence value from outside, "export-import" for what Export of the same
\* table has just returned.
AutoImport(call, data, seqValue) ==
    LET r == AutoUInt64Table_Import(store, groupTable, data, seqValue)
    IN  /\ store' = r.st
        \* existed: a row stored when the call began is not among data
        /\ op' = [name |-> call, tbl |-> groupTable.prefix, rowID |-> <<>>,
                  obj |-> data,
                  existed |-> \E rowID \in RowIDs(store, groupTable) :
                                 \A i \in 1..Len(data) : PrimaryKey(data[i]) # rowID,
                  old |-> NoObj,
                  err |-> r.err, ret |-> seqValue]
        \* the rowID history starts over with the imported state
        /\ handed' = IF r.err = OK THEN {} ELSE handed
        /\ freed' = IF r.err = OK THEN {} ELSE freed
        /\ UNCHANGED issued

NextAuto ==
    \/ \E admin \in AdminStrings : AutoCreate(admin)
    \/ \E obj \in GroupInfos : AutoUpdate(obj)
    \/ \E rowID \in 1..MaxSeq : AutoDelete(rowID)

\* the group table under creates, updates and deletes
SpecAuto == Init /\ [][NextAuto]_vars

\* the sequence values an import restores: none used yet, or all used up
ImportSeqValues == {0, MaxSeq}

\* what an import is called with: records and a sequence value from
\* outside, or the export of the table itself
ImportInputs(st) ==
    {[call |-> "import", data |-> data, seqValue |-> seqValue] :
        data \in SeqsUpTo(GroupInfos, MaxImport), seqValue \in ImportSeqValues}
    \cup {[call     |-> "export-import",
           data     |-> AutoUInt64Table_Export(st, groupTable).data,
           seqValue |-> AutoUInt64Table_Export(st, groupTable).seq]}

NextAutoImport ==
    \/ NextAuto
    \/ \E in \in ImportInputs(store) : AutoImport(in.call, in.data, in.seqValue)

\* the group table under creates, updates, deletes and genesis import
SpecAutoImport == Init /\ [][NextAutoImport]_vars

----------------------------------------------------------------------------
(* The sequence and the auto-increment rowIDs *)

\* the rowID an auto-increment create stores under: 8 bytes, big-endian
AutoRowID(id) == bigEndian(id, 8)

\* C9: the persisted value of a Sequence never decreases and every value
\* next() returns is strictly greater than all values it returned before,
\* across creates, updates, deletes and import; a call on an absent counter
\* returns 1 and each call returns the previous persisted value plus 1 and
\* persists it.
C9_SequenceNeverDecreases ==
    [][ /\ Sequence_CurVal(store', GroupTableSeqPrefix)
               >= Sequence_CurVal(store, GroupTableSeqPrefix)
        /\ (op'.name = "create" =>
               /\ op'.ret > issued
               /\ op'.ret = Sequence_CurVal(store, GroupTableSeqPrefix) + 1
               /\ op'.ret = Sequence_CurVal(store', GroupTableSeqPrefix)
               /\ (~Has(store, seqKey(GroupTableSeqPrefix)) => op'.ret = 1))
      ]_vars

\* a state in which the persisted counter is below a value that next() has
\* already returned
C9_Rewound == Sequence_CurVal(store, GroupTableSeqPrefix) < issued

\* C10: every successful create on the auto-increment table stores the
\* record under the 8-byte big-endian encoding of the value next() returned;
\* that rowID is new, is byte-wise greater than every rowID handed out
\* before, and is never one that a delete has freed; the rows of the table
\* are exactly rowIDs that were handed out and not freed.
C10_AutoRowIDsIncreaseNeverReused ==
    [][ /\ (op'.name = "create" /\ op'.err = OK) =>
               LET id == Sequence_CurVal(store', GroupTableSeqPrefix)
               IN  /\ id = Sequence_CurVal(store, GroupTableSeqPrefix) + 1
                   /\ op'.ret = id
                   /\ Len(AutoRowID(id)) = EncodedSeqLength
                   /\ fromBigEndian(AutoRowID(id)) = id
                   /\ ~Has(store, <<GroupTablePrefix>> \o AutoRowID(id))
                   /\ Has(store', <<GroupTablePrefix>> \o AutoRowID(id))
                   /\ store'[<<GroupTablePrefix>> \o AutoRowID(id)] = op'.obj
                   /\ AutoRowID(id) \notin handed
                   /\ AutoRowID(id) \notin freed
                   /\ \A h \in handed : BytesLess(h, AutoRowID(id))
                   /\ handed' = handed \cup {AutoRowID(id)}
        /\ PrefixStoreKeys(store', GroupTablePrefix) = handed' \ freed'
      ]_vars

\* C10 witness: a create succeeded after an earlier row was deleted
C10_Witness ==
    /\ op.name = "create"
    /\ op.tbl = GroupTablePrefix
    /\ op.err = OK
    /\ freed # {}
    /\ Cardinality(handed) >= 2
    /\ op.rowID \notin freed

----------------------------------------------------------------------------
(* Import and export *)

\* the records stored in the group table
GroupRows(st) ==
    {st[<<GroupTablePrefix>> \o rowID] : rowID \in PrefixStoreKeys(st, GroupTablePrefix)}

\* the entries of the group table's index by admin
GroupByAdminEntries(st) == PrefixStoreKeys(st, GroupByAdminIndexPrefix)

\* the index entry a group record is to have: admin address, then rowID
GroupByAdminEntryOf(rec) ==
    AccAddressFromBech32(rec.Admin).bytes \o AutoRowID(rec.GroupId)

\* C11: a successful import(data, seqValue), whatever the table held, leaves
\* the table holding exactly the records of data, each under its rowID, with
\* exactly the index entries those records yield, and the sequence such that
\* the next next() returns seqValue+1; exporting the table and importing
\* what was exported into it succeeds and reproduces the rows, the index
\* entries and the sequence value.
C11_ImportReplacesExportRoundTrips ==
    [][ /\ (op'.name = "import" /\ op'.err = OK) =>
               /\ GroupRows(store') = {op'.obj[i] : i \in 1..Len(op'.obj)}
               /\ Cardinality(PrefixStoreKeys(store', GroupTablePrefix)) = Len(op'.obj)
               /\ \A i \in 1..Len(op'.obj) :
                      /\ Has(store', <<GroupTablePrefix>> \o AutoRowID(op'.obj[i].GroupId))
                      /\ store'[<<GroupTablePrefix>> \o AutoRowID(op'.obj[i].GroupId)]
                             = op'.obj[i]
               /\ GroupByAdminEntries(store')
                      = {GroupByAdminEntryOf(op'.obj[i]) : i \in 1..Len(op'.obj)}
               /\ Sequence_NextVal(store', GroupTableSeqPrefix).val = op'.ret + 1
        /\ (op'.name = "export-import") =>
               /\ op'.err = OK
               /\ \A rowID \in PrefixStoreKeys(store, GroupTablePrefix) :
                      /\ Has(store', <<GroupTablePrefix>> \o rowID)
                      /\ store'[<<GroupTablePrefix>> \o rowID]
                             = store[<<GroupTablePrefix>> \o rowID]
               /\ PrefixStoreKeys(store', GroupTablePrefix)
                      = PrefixStoreKeys(store, GroupTablePrefix)
               /\ GroupByAdminEntries(store') = GroupByAdminEntries(store)
               /\ Sequence_CurVal(store', GroupTableSeqPrefix)
                      = Sequence_CurVal(store, GroupTableSeqPrefix)
      ]_vars

\* C11 witness: an import of a record succeeded on a table that held a row
\* which is not among the imported data
C11_Witness ==
    /\ op.name = "import"
    /\ op.err = OK
    /\ op.existed
    /\ Len(op.obj) >= 1
    /\ GroupRows(store) = {op.obj[i] : i \in 1..Len(op.obj)}

\* a state reached by exporting and re-importing a table with rows in it
C11_WitnessRoundTrip ==
    /\ op.name = "export-import"
    /\ op.err = OK
    /\ Len(op.obj) >= 2
    /\ op.ret >= 2

----------------------------------------------------------------------------
(* The index key codecs on their own: a codec, a searchable key and a rowID *)
(* are chosen, the index key is built and, unless building panicked, the   *)
(* rowID is stripped from it.                                              *)

\* the length above which AddLengthPrefix panics
MaxPrefixedLen == 255

ByteValues == {0, 1, 255}

\* n bytes, none of them zero
LongBytes(n) == [i \in 1..n |-> 7]

ShortByteStrings == SeqsUpTo(ByteValues, MaxBytesLen)

SearchableKeys ==
    ShortByteStrings \cup
    {LongBytes(MaxPrefixedLen - 1), LongBytes(MaxPrefixedLen), LongBytes(MaxPrefixedLen + 1)}

CodecRowIDs ==
    ShortByteStrings \cup {LongBytes(EncodedSeqLength + 1), LongBytes(MaxPrefixedLen + 1)}

Codecs ==
    {DynamicCodec} \cup
    {FixLengthIndexKeys(l) : l \in {1, MaxBytesLen, EncodedSeqLength}}

InitCodec ==
    /\ store = EmptyStore
    /\ \E codec \in Codecs, searchableKey \in SearchableKeys, rowID \in CodecRowIDs :
           op = [name |-> "input", codec |-> codec, searchableKey |-> searchableKey,
                 rowID |-> rowID, key |-> <<>>, ret |-> <<>>]
    /\ issued = 0
    /\ handed = {}
    /\ freed = {}

CodecBuildIndexKey ==
    /\ op.name = "input"
    /\ op' = [op EXCEPT !.name = "BuildIndexKey",
                        !.key = BuildIndexKey(op.codec, op.searchableKey, op.rowID)]
    /\ UNCHANGED <<store, issued, handed, freed>>

\* a panic in BuildIndexKey ends the program: nothing is stripped
CodecStripRowID ==
    /\ op.name = "BuildIndexKey"
    /\ op.key # Panic
    /\ op' = [op EXCEPT !.name = "StripRowID", !.ret = StripRowID(op.codec, op.key)]
    /\ UNCHANGED <<store, issued, handed, freed>>

NextCodec == CodecBuildIndexKey \/ CodecStripRowID

SpecCodec == InitCodec /\ [][NextCodec]_vars

\* C12: with the dynamic-length codec, for every searchKey of at most 255
\* bytes and every non-empty rowID, StripRowID(BuildIndexKey(searchKey,
\* rowID)) is rowID.
C12_DynamicRoundTrip ==
    (/\ op.name = "StripRowID"
     /\ op.codec.kind = "dynamic"
     /\ Len(op.searchableKey) <= 255
     /\ op.rowID # <<>>)
        => op.ret = op.rowID

\* the dynamic-length round trip returned something other than the rowID
C12_RoundTripBroken ==
    /\ op.name = "StripRowID"
    /\ op.codec.kind = "dynamic"
    /\ Len(op.searchableKey) <= 255
    /\ op.rowID # <<>>
    /\ op.ret # op.rowID

\* the dynamic-length round trip for searchable keys shorter than 255 bytes
DynamicRoundTripBelow255 ==
    (/\ op.name = "StripRowID"
     /\ op.codec.kind = "dynamic"
     /\ Len(op.searchableKey) < 255)
        => op.ret = op.rowID

\* C13: with the fixed-length codec of rowIDLength L, for every searchKey and
\* every rowID that BuildIndexKey accepts (non-empty, no longer than L),
\* StripRowID(BuildIndexKey(searchKey, rowID)) is rowID and the built key is
\* searchKey followed by rowID.
C13_FixedRoundTrip ==
    (/\ op.name = "StripRowID"
     /\ op.codec.kind = "fix"
     /\ op.rowID # <<>>
     /\ Len(op.rowID) <= op.codec.rowIDLength)
        => /\ op.ret = op.rowID
           /\ op.key = op.searchableKey \o op.rowID

\* the fixed-length codec accepted a rowID and the round trip returned
\* something else
C13_RoundTripBroken ==
    /\ op.name = "StripRowID"
    /\ op.codec.kind = "fix"
    /\ op.rowID # <<>>
    /\ Len(op.rowID) <= op.codec.rowIDLength
    /\ op.ret # op.rowID

\* the fixed-length round trip for rowIDs of exactly the declared length
FixedRoundTripExactLength ==
    (/\ op.name = "StripRowID"
     /\ op.codec.kind = "fix"
     /\ Len(op.rowID) = op.codec.rowIDLength)
        => /\ op.ret = op.rowID
           /\ op.key = op.searchableKey \o op.rowID

C15_WitnessLongSearchKey ==
    /\ op.name = "BuildIndexKey"
    /\ op.codec.kind = "dynamic"
    /\ op.rowID # <<>>
    /\ Len(op.searchableKey) > 255
    /\ op.key = Panic

----------------------------------------------------------------------------
(* The primary-key encoder on its own.  In the first specification one     *)
(* field list is chosen and encoded; in the second, two field lists of the *)
(* same kinds are chosen and both encoded, to compare the keys.            *)

BytesField(v)  == [kind |-> "bytes", val |-> v, num |-> 0]
StringField(v) == [kind |-> "string", val |-> v, num |-> 0]
UInt64Field(v) == [kind |-> "uint64", val |-> <<>>, num |-> v]
UInt32Field(v) == [kind |-> "uint32", val |-> <<>>, num |-> v]

\* the integers offered: both sides of each byte boundary that fits
UIntValues == {0, 1, 255, 256, 65535, 65536}

\* strings, as their bytes: "", "a", "b", "aa" and strings with a NUL
StringValues == {<<>>, <<97>>, <<98>>, <<97, 97>>, <<97, 0>>, <<0, 98>>}

\* every kind of field PrimaryKeyFields may return, the kinds that are not
\* allowed included
AnyFields ==
    {BytesField(v) : v \in ShortByteStrings \cup
                           {LongBytes(MaxPrefixedLen), LongBytes(MaxPrefixedLen + 1)}}
    \cup {StringField(v) : v \in StringValues}
    \cup {UInt64Field(v) : v \in UIntValues}
    \cup {UInt32Field(v) : v \in {1, 256}}
    \cup {[kind |-> "bool", val |-> <<>>, num |-> 1]}

InitPK ==
    /\ store = EmptyStore
    /\ \E fields \in SeqsUpTo(AnyFields, MaxFields) :
           op = [name |-> "input", fields |-> fields, key |-> <<>>]
    /\ issued = 0
    /\ handed = {}
    /\ freed = {}

EncodePK ==
    /\ op.name = "input"
    /\ op' = [op EXCEPT !.name = "buildPrimaryKey", !.key = buildPrimaryKey(op.fields)]
    /\ UNCHANGED <<store, issued, handed, freed>>

NextPK == EncodePK

SpecPK == InitPK /\ [][NextPK]_vars

\* the fields compared in pairs
PairBytesValues == {<<>>, <<0>>, <<1>>, <<0, 0>>, <<1, 0>>}
PairUIntValues == {0, 1, 255, 256, 65536}

FieldsOfKind(kind) ==
    CASE kind = "bytes"  -> {BytesField(v) : v \in PairBytesValues}
      [] kind = "string" -> {StringField(v) : v \in StringValues}
      [] kind = "uint64" -> {UInt64Field(v) : v \in PairUIntValues}

AllowedKinds == {"bytes", "string", "uint64"}

\* the field lists whose kinds are the given sequence of kinds
FieldLists(kinds) ==
    {fields \in [1..Len(kinds) -> UNION {FieldsOfKind(k) : k \in AllowedKinds}] :
        \A i \in 1..Len(kinds) : fields[i].kind = kinds[i]}

InitPKPair ==
    /\ store = EmptyStore
    /\ \E kinds \in SeqsUpTo(AllowedKinds, MaxFields) :
           \E a \in FieldLists(kinds), b \in FieldLists(kinds) :
               op = [name |-> "input", a |-> a, b |-> b, keyA |-> <<>>, keyB |-> <<>>]
    /\ issued = 0
    /\ handed = {}
    /\ freed = {}

EncodePKPair ==
    /\ op.name = "input"
    /\ op' = [op EXCEPT !.name = "buildPrimaryKey",
                        !.keyA = buildPrimaryKey(op.a),
                        !.keyB = buildPrimaryKey(op.b)]
    /\ UNCHANGED <<store, issued, handed, freed>>

NextPKPair == EncodePKPair

SpecPKPair == InitPKPair /\ [][NextPKPair]_vars

----------------------------------------------------------------------------
(* The primary-key encoding *)

\* a field the encoder is documented to take
AllowedField(f) ==
    /\ f.kind \in AllowedKinds
    /\ f.kind = "bytes" => Len(f.val) <= 255

\* the length of a field's encoding
FieldLen(f) ==
    CASE f.kind = "bytes"  -> 1 + Len(f.val)
      [] f.kind = "string" -> Len(f.val) + 1
      [] f.kind = "uint64" -> 8

\* the length of the encodings of the first n fields together
RECURSIVE SumLen(_, _)
SumLen(fields, n) ==
    IF n = 0 THEN 0 ELSE SumLen(fields, n - 1) + FieldLen(fields[n])

\* the part of key that encodes the i-th field
FieldSegment(key, fields, i) ==
    SubSeq(key, SumLen(fields, i - 1) + 1, SumLen(fields, i))

NoNul(fields) ==
    \A i \in 1..Len(fields) :
        fields[i].kind = "string" =>
            \A j \in 1..Len(fields[i].val) : fields[i].val[j] # 0

\* C17: for two field lists of the same kinds (byte strings of at most 255
\* bytes, strings with no NUL character, unsigned integers), equal keys
\* mean equal field lists.
C17_PrimaryKeyInjective ==
    (/\ op.name = "buildPrimaryKey"
     /\ NoNul(op.a)
     /\ NoNul(op.b)
     /\ op.keyA = op.keyB)
        => op.a = op.b

\* C17 witness: two different lists of two strings with the same bytes
\* taken together, encoded to different keys
C17_Witness ==
    /\ op.name = "buildPrimaryKey"
    /\ Len(op.a) = 2
    /\ op.a[1].kind = "string" /\ op.a[2].kind = "string"
    /\ NoNul(op.a) /\ NoNul(op.b)
    /\ op.a # op.b
    /\ op.a[1].val \o op.a[2].val = op.b[1].val \o op.b[2].val
    /\ op.keyA # op.keyB

\* two different lists of strings, one with a NUL character, with one key
NulCollision ==
    /\ op.name = "buildPrimaryKey"
    /\ op.a # op.b
    /\ op.keyA = op.keyB

\* the two lists differ in the i-th field only, an integer
DifferOnlyInUInt(a, b, i) ==
    /\ a[i].kind = "uint64"
    /\ a[i].num # b[i].num
    /\ \A j \in 1..Len(a) : j # i => a[j] = b[j]

\* C18: for two field tuples equal except in one unsigned integer field,
\* the byte-wise order of the keys is the numeric order of that field.
C18_UIntFieldOrdersKeys ==
    (op.name = "buildPrimaryKey") =>
        \A i \in 1..Len(op.a) :
            DifferOnlyInUInt(op.a, op.b, i) =>
                (BytesLess(op.keyA, op.keyB) <=> op.a[i].num < op.b[i].num)

\* C18 witness: two tuples with the same string and the integers 255 and
\* 256, the first key below the second
C18_Witness ==
    /\ op.name = "buildPrimaryKey"
    /\ Len(op.a) = 2
    /\ op.a[1].kind = "string"
    /\ op.a[1].val # <<>>
    /\ DifferOnlyInUInt(op.a, op.b, 2)
    /\ op.a[2].num = 255
    /\ op.b[2].num = 256
    /\ BytesLess(op.keyA, op.keyB)

\* a < b in the natural order of their kind
NaturalLess(a, b) ==
    IF a.kind = "uint64" THEN a.num < b.num ELSE BytesLess(a.val, b.val)

\* C19: for two values a, b of one allowed kind, a < b in the natural order
\* of the kind (byte-wise for byte strings and strings, numeric for
\* integers) implies encode(a) < encode(b) byte-wise.
C19_FieldEncodingKeepsOrder ==
    (/\ op.name = "buildPrimaryKey"
     /\ Len(op.a) = 1
     /\ NaturalLess(op.a[1], op.b[1]))
        => BytesLess(op.keyA, op.keyB)

\* two byte strings a < b were encoded to keys in the opposite order
C19_OrderReversed ==
    /\ op.name = "buildPrimaryKey"
    /\ Len(op.a) = 1
    /\ op.a[1].kind = "bytes"
    /\ BytesLess(op.a[1].val, op.b[1].val)
    /\ BytesLess(op.keyB, op.keyA)

\* the order is kept for strings and for integers
StringAndUIntEncodingKeepsOrder ==
    (/\ op.name = "buildPrimaryKey"
     /\ Len(op.a) = 1
     /\ op.a[1].kind # "bytes"
     /\ NaturalLess(op.a[1], op.b[1]))
        => BytesLess(op.keyA, op.keyB)

\* C20: the encoder takes unsigned integers of both widths, a 32-bit one as
\* 4 bytes big-endian and a 64-bit one as 8 bytes big-endian; only a field
\* that is no byte string, string or unsigned integer is a fatal failure.
C20_BothUIntWidthsEncoded ==
    (op.name = "buildPrimaryKey") =>
        /\ (\A i \in 1..Len(op.fields) :
                /\ op.fields[i].kind \in {"bytes", "string", "uint32", "uint64"}
                /\ Len(op.fields[i].val) <= 255)
               => op.key # Panic
        /\ (Len(op.fields) = 1 /\ op.fields[1].kind = "uint32")
               => op.key = bigEndian(op.fields[1].num, 4)
        /\ (Len(op.fields) = 1 /\ op.fields[1].kind = "uint64")
               => op.key = bigEndian(op.fields[1].num, 8)

\* a 32-bit unsigned integer field made the encoder panic
C20_UInt32Panics ==
    /\ op.name = "buildPrimaryKey"
    /\ Len(op.fields) = 1
    /\ op.fields[1].kind = "uint32"
    /\ op.key = Panic

\* the encoder panics exactly on a field that is no byte string of at most
\* 255 bytes, string or 64-bit unsigned integer
PanicsUnlessAllowedField ==
    (op.name = "buildPrimaryKey") =>
        ((op.key = Panic) <=>
            \E i \in 1..Len(op.fields) : ~AllowedField(op.fields[i]))

-----------------------------------------------------------------------------
(* Decimal values: value = coeff / 10^scale.  The scale is the count of     *)
(* fractional digits of the text the value came from; zero carries no sign. *)

ErrInvalidRequest == "ErrInvalidRequest"
ErrInsufficientFunds == "ErrInsufficientFunds"
ErrInvalidDecString == "ErrInvalidDecString"
ErrDivisionByZero == "ErrDivisionByZero"
ErrInexact == "ErrInexact"

MaxQuoPlaces == 4

RECURSIVE Pow10(_)
Pow10(n) == IF n = 0 THEN 1 ELSE 10 * Pow10(n - 1)

Abs(n) == IF n < 0 THEN -n ELSE n

Dec(coeff, scale) == [coeff |-> coeff, scale |-> scale]

NoDec == Dec(0, 0)

DecOK(d) == [err |-> OK, dec |-> d]

DecErr(e) == [err |-> e, dec |-> NoDec]

NewDecFromInt64(i) == Dec(i, 0)

Aligned(x, scale) == x.coeff * Pow10(scale - x.scale)

Dec_Cmp(x, y) ==
    LET s == Max(x.scale, y.scale)
        d == Aligned(x, s) - Aligned(y, s)
    IN IF d < 0 THEN -1 ELSE IF d > 0 THEN 1 ELSE 0

Dec_IsEqual(x, y) == Dec_Cmp(x, y) = 0

Dec_IsZero(x) == x.coeff = 0

Dec_IsNegative(x) == x.coeff < 0

Dec_IsPositive(x) == x.coeff > 0

Dec_NumDecimalPlaces(x) == x.scale

Dec_Add(x, y) ==
    LET s == Max(x.scale, y.scale)
    IN DecOK(Dec(Aligned(x, s) + Aligned(y, s), s))

Dec_Sub(x, y) ==
    LET s == Max(x.scale, y.scale)
    IN DecOK(Dec(Aligned(x, s) - Aligned(y, s), s))

Dec_Mul(x, y) == DecOK(Dec(x.coeff * y.coeff, x.scale + y.scale))

(* x / y = (x.coeff * 10^y.scale) / (y.coeff * 10^x.scale); the result is   *)
(* the quotient written with the fewest fractional digits that make it      *)
(* exact, and an error when no such digit count exists.                     *)
Dec_Quo_ZeroDivisorIsZero(x, y) ==
    LET num == Abs(x.coeff) * Pow10(y.scale)
        den == IF y.coeff = 0 THEN 1 ELSE Abs(y.coeff) * Pow10(x.scale)
        neg == (x.coeff < 0) # (y.coeff < 0)
        places == {s \in 0..MaxQuoPlaces : (num * Pow10(s)) % den = 0}
        s == CHOOSE p \in places : \A q \in places : p <= q
        mag == (num * Pow10(s)) \div den
    IN IF y.coeff = 0 THEN DecOK(NoDec)
       ELSE IF places = {} THEN DecErr(ErrInexact)
       ELSE DecOK(Dec(IF neg THEN -mag ELSE mag, s))

Dec_Quo(x, y) ==
    LET num == Abs(x.coeff) * Pow10(y.scale)
        den == IF y.coeff = 0 THEN 1 ELSE Abs(y.coeff) * Pow10(x.scale)
        neg == (x.coeff < 0) # (y.coeff < 0)
        places == {s \in 0..MaxQuoPlaces : (num * Pow10(s)) % den = 0}
        s == CHOOSE p \in places : \A q \in places : p <= q
        mag == (num * Pow10(s)) \div den
    IN IF y.coeff = 0 THEN DecErr(ErrDivisionByZero)
       ELSE IF places = {} THEN DecErr(ErrInexact)
       ELSE DecOK(Dec(IF neg THEN -mag ELSE mag, s))

(* the remainder keeps the sign of the dividend *)
Dec_Rem(x, y) ==
    LET s == Max(x.scale, y.scale)
        a == Abs(Aligned(x, s))
        b == IF y.coeff = 0 THEN 1 ELSE Abs(Aligned(y, s))
        mag == a % b
    IN IF y.coeff = 0 THEN DecErr(ErrDivisionByZero)
       ELSE DecOK(Dec(IF x.coeff < 0 THEN -mag ELSE mag, s))

SafeSubBalance_NoCheck(x, y) == Dec_Sub(x, y)

SafeSubBalance(x, y) ==
    LET z == Dec_Sub(x, y)
    IN IF z.err # OK THEN z
       ELSE IF Dec_IsNegative(z.dec) THEN DecErr(ErrInsufficientFunds)
       ELSE z

SafeAddBalance_FirstOperandOnly(x, y) ==
    IF Dec_IsNegative(x) THEN DecErr(ErrInvalidRequest)
    ELSE Dec_Add(x, y)

SafeAddBalance(x, y) ==
    IF Dec_IsNegative(x) \/ Dec_IsNegative(y) THEN DecErr(ErrInvalidRequest)
    ELSE Dec_Add(x, y)

-----------------------------------------------------------------------------
(* A balance changed by SafeAddBalance and SafeSubBalance.  op.balance is   *)
(* the running balance: a call whose first operand is the balance replaces  *)
(* it by the result when it succeeds.                                       *)

MaxBalance == 6

AmountCoeffs == {-5, -1, 0, 2, 3, 5}

AmountScales == {0, 1}

Amounts == {Dec(c, s) : c \in AmountCoeffs, s \in AmountScales} \cup {Dec(-50, 1)}

BalanceCall(name, a, b, r) ==
    [name |-> name, a |-> a, b |-> b, err |-> r.err, ret |-> r.dec,
     balance |-> IF r.err = OK /\ a = op.balance THEN r.dec ELSE op.balance]

InitBalance ==
    /\ store = EmptyStore
    /\ issued = 0
    /\ handed = {}
    /\ freed = {}
    /\ \E d \in {x \in Amounts : ~Dec_IsNegative(x)} :
          op = [name |-> "init", a |-> NoDec, b |-> NoDec, err |-> OK,
                ret |-> NoDec, balance |-> d]

WithinMaxBalance(r) ==
    r.err = OK => Dec_Cmp(r.dec, NewDecFromInt64(MaxBalance)) <= 0

BalanceSafeSub ==
    \E a \in {op.balance} \cup Amounts, b \in Amounts :
        LET r == SafeSubBalance(a, b)
        IN /\ WithinMaxBalance(r)
           /\ op' = BalanceCall("SafeSubBalance", a, b, r)
           /\ UNCHANGED <<store, issued, handed, freed>>

BalanceSafeAdd ==
    \E a \in {op.balance} \cup Amounts, b \in Amounts :
        LET r == SafeAddBalance(a, b)
        IN /\ WithinMaxBalance(r)
           /\ op' = BalanceCall("SafeAddBalance", a, b, r)
           /\ UNCHANGED <<store, issued, handed, freed>>

NextBalance == BalanceSafeSub \/ BalanceSafeAdd

SpecBalance == InitBalance /\ [][NextBalance]_vars

(* the value of x written with `scale` fractional digits *)
ValueAt(x, scale) == x.coeff * Pow10(scale - x.scale)

CommonScale(x, y, z) == Max(Max(x.scale, y.scale), z.scale)

(* C21: safeSubBalance(a, b) returns exactly a - b when a >= b and fails,   *)
(* with the insufficient-funds error and no other, exactly when a < b; a    *)
(* successful result on non-negative operands is never negative.            *)
C21_SafeSubBalance ==
    (op.name = "SafeSubBalance") =>
        LET s == CommonScale(op.a, op.b, op.ret)
            less == ValueAt(op.a, s) < ValueAt(op.b, s)
        IN /\ less <=> (op.err # OK)
           /\ less => (op.err = ErrInsufficientFunds)
           /\ ~less => (ValueAt(op.ret, s) = ValueAt(op.a, s) - ValueAt(op.b, s))
           /\ (op.err = OK /\ op.a.coeff >= 0 /\ op.b.coeff >= 0)
                  => (op.ret.coeff >= 0)

C21_Witness ==
    /\ op.name = "SafeSubBalance"
    /\ op.a = NewDecFromInt64(2)
    /\ op.b = NewDecFromInt64(5)
    /\ op.err = ErrInsufficientFunds

C21_WitnessSuccess ==
    /\ op.name = "SafeSubBalance"
    /\ op.a = NewDecFromInt64(5)
    /\ op.b = NewDecFromInt64(2)
    /\ op.err = OK
    /\ op.ret = NewDecFromInt64(3)

(* C22: safeAddBalance(a, b) fails whenever a or b is negative and returns  *)
(* a + b otherwise, and the balance reached by any chain of successful      *)
(* safeAddBalance / safeSubBalance calls from a non-negative balance is     *)
(* non-negative.                                                            *)
C22_SafeAddBalanceAndChain ==
    /\ op.balance.coeff >= 0
    /\ (op.name = "SafeAddBalance") =>
           LET s == CommonScale(op.a, op.b, op.ret)
               negative == op.a.coeff < 0 \/ op.b.coeff < 0
           IN /\ negative <=> (op.err # OK)
              /\ negative => (op.err = ErrInvalidRequest)
              /\ ~negative =>
                    (ValueAt(op.ret, s) = ValueAt(op.a, s) + ValueAt(op.b, s))

C22_Witness ==
    /\ op.name = "SafeAddBalance"
    /\ op.err = OK
    /\ op.b.coeff > 0
    /\ op.balance = op.ret
    /\ op.balance = Dec(10 * MaxBalance, 1)

C22_WitnessRejected ==
    /\ op.name = "SafeAddBalance"
    /\ op.a = Dec(-50, 1)
    /\ op.b = NewDecFromInt64(5)
    /\ op.err = ErrInvalidRequest

-----------------------------------------------------------------------------
(* Decimal constructors.  A text is a sequence of characters; the format is *)
(* an optional leading "-", digits, and an optional "." followed by digits, *)
(* with no exponent notation.                                               *)

Digits == {"0", "1", "5"}

Letters == {"a"}

Chars == {"-", "."} \cup Digits \cup Letters

MaxTextLen == 4

DigitValue(ch) == CASE ch = "0" -> 0 [] ch = "1" -> 1 [] ch = "5" -> 5

IsDigit(ch) == ch \in Digits

NotDot(ch) == ch # "."

RECURSIVE DigitsValue(_)
DigitsValue(digits) ==
    IF digits = <<>> THEN 0
    ELSE 10 * DigitsValue(SubSeq(digits, 1, Len(digits) - 1))
         + DigitValue(digits[Len(digits)])

NewDecFromString(text) ==
    LET neg == Len(text) > 0 /\ text[1] = "-"
        body == IF neg THEN Tail(text) ELSE text
        dots == {i \in 1..Len(body) : body[i] = "."}
        dot == CHOOSE i \in dots : TRUE
        digits == SelectSeq(body, NotDot)
        mag == DigitsValue(digits)
    IN IF Cardinality(dots) > 1 THEN DecErr(ErrInvalidDecString)
       ELSE IF digits = <<>> THEN DecErr(ErrInvalidDecString)
       ELSE IF \E i \in 1..Len(digits) : ~IsDigit(digits[i])
            THEN DecErr(ErrInvalidDecString)
       ELSE IF dots # {} /\ dot = Len(body) THEN DecErr(ErrInvalidDecString)
       ELSE DecOK(Dec(IF neg THEN -mag ELSE mag,
                      IF dots = {} THEN 0 ELSE Len(body) - dot))

NewNonNegativeDecFromString(text) ==
    LET d == NewDecFromString(text)
    IN IF d.err # OK THEN d
       ELSE IF Dec_IsNegative(d.dec) THEN DecErr(ErrInvalidDecString)
       ELSE d

\* a value with too many fractional digits is cut to max digits
NewNonNegativeFixedDecFromString_Truncating(text, max) ==
    LET d == NewNonNegativeDecFromString(text)
    IN IF d.err # OK THEN d
       ELSE IF Dec_NumDecimalPlaces(d.dec) > max
            THEN DecOK(Dec(d.dec.coeff \div Pow10(d.dec.scale - max), max))
       ELSE d

NewNonNegativeFixedDecFromString(text, max) ==
    LET d == NewNonNegativeDecFromString(text)
    IN IF d.err # OK THEN d
       ELSE IF Dec_NumDecimalPlaces(d.dec) > max THEN DecErr(ErrInvalidDecString)
       ELSE d

NewPositiveDecFromString(text) ==
    LET d == NewDecFromString(text)
    IN IF d.err # OK THEN d
       ELSE IF ~Dec_IsPositive(d.dec) THEN DecErr(ErrInvalidDecString)
       ELSE d

NewPositiveFixedDecFromString(text, max) ==
    LET d == NewPositiveDecFromString(text)
    IN IF d.err # OK THEN d
       ELSE IF Dec_NumDecimalPlaces(d.dec) > max THEN DecErr(ErrInvalidDecString)
       ELSE d

ParsePositiveDecimal(text) == NewPositiveDecFromString(text)

(* MsgRetire.ValidateBasic: holder, credits (batch denom and amount) and    *)
(* location; locationOK is the outcome of validateLocation.                 *)
RECURSIVE validateCredits(_)
validateCredits(credits) ==
    IF credits = <<>> THEN OK
    ELSE IF Head(credits).BatchDenom = "" THEN ErrInvalidRequest
    ELSE IF ParsePositiveDecimal(Head(credits).Amount).err # OK
         THEN ParsePositiveDecimal(Head(credits).Amount).err
    ELSE validateCredits(Tail(credits))

MsgRetire_ValidateBasic(m) ==
    IF AccAddressFromBech32(m.Holder).err # OK
    THEN AccAddressFromBech32(m.Holder).err
    ELSE IF Len(m.Credits) = 0 THEN ErrInvalidRequest
    ELSE IF validateCredits(m.Credits) # OK THEN validateCredits(m.Credits)
    ELSE IF ~m.locationOK THEN ErrInvalidRequest
    ELSE OK

RECURSIVE TextsOfLen(_)
TextsOfLen(n) ==
    IF n = 0 THEN {<<>>}
    ELSE {Append(t, ch) : t \in TextsOfLen(n - 1), ch \in Chars}

Texts ==
    UNION {TextsOfLen(n) : n \in 0..MaxTextLen}
        \cup {<<"1", ".", "1", "5", "0", "5">>}

MaxPlaces == {0, 1, 2}

NoMsg == [Holder |-> "", Credits |-> <<>>, locationOK |-> FALSE]

RetireMsgs(text) ==
    {[Holder |-> h, Credits |-> c, locationOK |-> l] :
        h \in {"addrA", "no address"},
        c \in {<<>>, <<[BatchDenom |-> "C01", Amount |-> text]>>,
               <<[BatchDenom |-> "", Amount |-> text]>>},
        l \in BOOLEAN}

ParseCall(name, text, max, r) ==
    [name |-> name, text |-> text, max |-> max, err |-> r.err, dec |-> r.dec,
     msg |-> NoMsg]

InitParse ==
    /\ store = EmptyStore
    /\ issued = 0
    /\ handed = {}
    /\ freed = {}
    /\ \E text \in Texts : op = ParseCall("init", text, 0, DecOK(NoDec))

Parse ==
    /\ op' = ParseCall("NewDecFromString", op.text, 0, NewDecFromString(op.text))
    /\ UNCHANGED <<store, issued, handed, freed>>

ParseNonNegative ==
    /\ op' = ParseCall("NewNonNegativeDecFromString", op.text, 0,
                       NewNonNegativeDecFromString(op.text))
    /\ UNCHANGED <<store, issued, handed, freed>>

ParseNonNegativeFixed ==
    \E max \in MaxPlaces :
        /\ op' = ParseCall("NewNonNegativeFixedDecFromString", op.text, max,
                           NewNonNegativeFixedDecFromString(op.text, max))
        /\ UNCHANGED <<store, issued, handed, freed>>

ParsePositive ==
    /\ op' = ParseCall("NewPositiveDecFromString", op.text, 0,
                       NewPositiveDecFromString(op.text))
    /\ UNCHANGED <<store, issued, handed, freed>>

ParsePositiveFixed ==
    \E max \in MaxPlaces :
        /\ op' = ParseCall("NewPositiveFixedDecFromString", op.text, max,
                           NewPositiveFixedDecFromString(op.text, max))
        /\ UNCHANGED <<store, issued, handed, freed>>

RetireValidateBasic ==
    \E m \in RetireMsgs(op.text) :
        /\ op' = [name |-> "MsgRetire.ValidateBasic", text |-> op.text,
                  max |-> 0, err |-> MsgRetire_ValidateBasic(m),
                  dec |-> NoDec, msg |-> m]
        /\ UNCHANGED <<store, issued, handed, freed>>

NextParse ==
    \/ Parse
    \/ ParseNonNegative
    \/ ParseNonNegativeFixed
    \/ ParsePositive
    \/ ParsePositiveFixed
    \/ RetireValidateBasic

SpecParse == InitParse /\ [][NextParse]_vars

(* What a text denotes, read off the text position by position. *)
WellFormed(text) ==
    \E n \in {0, 1}, i \in 0..Len(text) :
        /\ n + i <= Len(text)
        /\ (n = 1) => (text[1] = "-")
        /\ \A k \in (n + 1)..(n + i) : IsDigit(text[k])
        /\ \/ n + i = Len(text) /\ i >= 1
           \/ /\ n + i + 1 < Len(text)
              /\ text[n + i + 1] = "."
              /\ \A k \in (n + i + 2)..Len(text) : IsDigit(text[k])

HasLetter(text) == \E k \in 1..Len(text) : text[k] \in Letters

DigitsAfter(text, k) ==
    Cardinality({j \in (k + 1)..Len(text) : IsDigit(text[j])})

RECURSIVE TextMagnitudeFrom(_, _)
TextMagnitudeFrom(text, k) ==
    IF k > Len(text) THEN 0
    ELSE (IF IsDigit(text[k])
          THEN DigitValue(text[k]) * Pow10(DigitsAfter(text, k)) ELSE 0)
         + TextMagnitudeFrom(text, k + 1)

TextMagnitude(text) == TextMagnitudeFrom(text, 1)

TextNegative(text) == text[1] = "-" /\ TextMagnitude(text) > 0

FractionDigits(text) ==
    IF \E k \in 1..Len(text) : text[k] = "."
    THEN Len(text) - (CHOOSE k \in 1..Len(text) : text[k] = ".")
    ELSE 0

NonNegativeConstructors ==
    {"NewNonNegativeDecFromString", "NewNonNegativeFixedDecFromString"}

PositiveConstructors ==
    {"NewPositiveDecFromString", "NewPositiveFixedDecFromString"}

FixedConstructors ==
    {"NewNonNegativeFixedDecFromString", "NewPositiveFixedDecFromString"}

Constructors ==
    {"NewDecFromString"} \cup NonNegativeConstructors \cup PositiveConstructors

ViolatesRule(name, text, max) ==
    \/ ~WellFormed(text)
    \/ name \in NonNegativeConstructors /\ TextNegative(text)
    \/ name \in PositiveConstructors
          /\ (TextNegative(text) \/ TextMagnitude(text) = 0)
    \/ name \in FixedConstructors /\ FractionDigits(text) > max

C23_WitnessAccepted ==
    /\ op.name = "NewPositiveFixedDecFromString"
    /\ op.text = <<"1", ".", "1", "5">>
    /\ op.max = 2
    /\ op.err = OK
    /\ op.dec = Dec(115, 2)

(* MsgRetire.ValidateBasic accepts a message only when the amount of its    *)
(* credit is the text of a positive decimal.                                *)
RetireAmountPositive ==
    (op.name = "MsgRetire.ValidateBasic" /\ op.err = OK) =>
        /\ Len(op.msg.Credits) > 0
        /\ ~ViolatesRule("NewPositiveDecFromString", op.text, 0)

-----------------------------------------------------------------------------
(* Multiplication, division and remainder on pairs of decimals *)

PairCoeffs == {-12, -3, -1, 0, 1, 2, 3, 5, 7, 12}

PairScales == {0, 1, 2}

PairDecs == {Dec(c, s) : c \in PairCoeffs, s \in PairScales}

DecCall(name, a, b, prod, r) ==
    [name |-> name, a |-> a, b |-> b, prod |-> prod,
     err |-> r.err, ret |-> r.dec]

InitDec ==
    /\ store = EmptyStore
    /\ issued = 0
    /\ handed = {}
    /\ freed = {}
    /\ \E a \in PairDecs, b \in PairDecs :
          op = DecCall("init", a, b, NoDec, DecOK(NoDec))

\* b, err := a.Quo(a)
SelfQuo ==
    /\ op' = DecCall("SelfQuo", op.a, op.b, NoDec, Dec_Quo(op.a, op.a))
    /\ UNCHANGED <<store, issued, handed, freed>>

\* c, err := a.Mul(b); d, err := c.Quo(a)
MulQuo ==
    LET c == Dec_Mul(op.a, op.b)
    IN /\ op' = DecCall("MulQuo", op.a, op.b, c.dec,
                        IF c.err # OK THEN c ELSE Dec_Quo(c.dec, op.a))
       /\ UNCHANGED <<store, issued, handed, freed>>

\* res, err = a.Quo(b)
Quo ==
    /\ op' = DecCall("Quo", op.a, op.b, NoDec, Dec_Quo(op.a, op.b))
    /\ UNCHANGED <<store, issued, handed, freed>>

\* res, err = a.Rem(b)
Rem ==
    /\ op' = DecCall("Rem", op.a, op.b, NoDec, Dec_Rem(op.a, op.b))
    /\ UNCHANGED <<store, issued, handed, freed>>

NextDec == SelfQuo \/ MulQuo \/ Quo \/ Rem

SpecDec == InitDec /\ [][NextDec]_vars

(* x = y as numbers, compared through the integers both denote at a common  *)
(* count of fractional digits                                               *)
SameNumber(x, y) ==
    x.coeff * Pow10(y.scale) = y.coeff * Pow10(x.scale)

(* C24: for a nonzero a, a.Quo(a) is 1 and (a.Mul(b)).Quo(a) is b, with no  *)
(* error and no rounding; quo and rem with a zero divisor return an error.  *)
C24_MulQuoInverse ==
    /\ (op.name = "SelfQuo" /\ op.a.coeff # 0)
          => (op.err = OK /\ SameNumber(op.ret, NewDecFromInt64(1)))
    /\ (op.name = "MulQuo" /\ op.a.coeff # 0)
          => /\ op.err = OK
             /\ SameNumber(op.ret, op.b)
             /\ SameNumber(op.prod,
                           Dec(op.ret.coeff * op.a.coeff,
                               op.ret.scale + op.a.scale))
    /\ (op.name = "SelfQuo" /\ op.a.coeff = 0) => (op.err # OK)
    /\ (op.name \in {"Quo", "Rem"} /\ op.b.coeff = 0) => (op.err # OK)

C24_Witness ==
    /\ op.name = "MulQuo"
    /\ op.a = Dec(3, 2)
    /\ op.b = Dec(-12, 1)
    /\ op.prod = Dec(-36, 3)
    /\ op.err = OK
    /\ op.ret = Dec(-12, 1)

C24_WitnessZeroDivisor ==
    /\ op.name = "Quo"
    /\ op.a = Dec(5, 0)
    /\ op.b = Dec(0, 1)
    /\ op.err = ErrDivisionByZero

(* Division and remainder on integers: 12 / 3 = 4 and 5 rem 2 = 1. *)
QuoRemUnitTests ==
    /\ (op.name = "Quo" /\ op.a = Dec(12, 0) /\ op.b = Dec(3, 0))
          => (op.err = OK /\ op.ret = Dec(4, 0))
    /\ (op.name = "Rem" /\ op.a = Dec(5, 0) /\ op.b = Dec(2, 0))
          => (op.err = OK /\ op.ret = Dec(1, 0))

-----------------------------------------------------------------------------
(* The data module: anchoring, signing and storing content by CID.         *)
(* A CID is the bytes version, codec, multihash; a multihash is the bytes  *)
(* hash code, digest length, digest.  Digests are one byte long here.      *)

AnchorTablePrefix == 0
SignersTablePrefix == 1

anchorTable ==
    [prefix |-> AnchorTablePrefix, codec |-> DynamicCodec, indexes |-> <<>>]

signersTable ==
    [prefix |-> SignersTablePrefix, codec |-> DynamicCodec, indexes |-> <<>>]

\* sdkerrors.Wrap: a nil error stays nil
sdkerrors_Wrap(err) == IF err = OK THEN OK ELSE err

HashNames == {"sha2-256", "blake2b-256", "sha1"}

multihash_Code(name) ==
    CASE name = "sha2-256" -> 18
      [] name = "blake2b-256" -> 45600
      [] name = "sha1" -> 17

multihash_Name(code) ==
    IF \E n \in HashNames : multihash_Code(n) = code
    THEN CHOOSE n \in HashNames : multihash_Code(n) = code
    ELSE ""

RECURSIVE SumBytes(_)
SumBytes(bz) == IF bz = <<>> THEN 0 ELSE Head(bz) + SumBytes(Tail(bz))

\* the digest of content under a hash function, cut to one byte
Digest(content, code) == <<(code + 7 * SumBytes(content) + Len(content)) % 256>>

multihash_Sum(content, code) ==
    IF multihash_Name(code) = ""
    THEN [err |-> ErrInvalidRequest, mh |-> <<>>]
    ELSE [err |-> OK, mh |-> <<code, 1>> \o Digest(content, code)]

multihash_Decode(mh) ==
    IF Len(mh) < 2 \/ Len(mh) # 2 + mh[2]
    THEN [err |-> ErrInvalidRequest, Name |-> "", Code |-> 0]
    ELSE [err |-> OK, Name |-> multihash_Name(mh[1]), Code |-> mh[1]]

\* gocid.Cast: version 1, a codec, then a well-formed multihash (version 0
\* CIDs need a 32-byte digest and are not among the byte strings used here)
gocid_Cast(cidBz) ==
    IF Len(cidBz) < 4 \/ cidBz[1] # 1
          \/ multihash_Decode(SubSeq(cidBz, 3, Len(cidBz))).err # OK
    THEN [err |-> ErrInvalidRequest, Hash |-> <<>>]
    ELSE [err |-> OK, Hash |-> SubSeq(cidBz, 3, Len(cidBz))]

\* gogotypes.TimestampProto(ctx.BlockTime())
TimestampProto(blockTime) ==
    [err |-> OK, timestamp |-> [Seconds |-> blockTime, Nanos |-> 0]]

anchorCid(st, cidBytes, blockTime) ==
    LET ts == TimestampProto(blockTime)
    IN IF ts.err # OK THEN [err |-> sdkerrors_Wrap(ts.err), st |-> st]
       ELSE LET r == tableCreate(st, anchorTable, cidBytes, ts.timestamp)
            IN [err |-> sdkerrors_Wrap(r.err), st |-> r.st]

anchorCidIfNeeded_Never(st, cid, blockTime) == [err |-> OK, st |-> st]

anchorCidIfNeeded(st, cid, blockTime) ==
    IF tableHas(st, anchorTable, cid) THEN [err |-> OK, st |-> st]
    ELSE anchorCid(st, cid, blockTime)

serverImpl_AnchorData_NoHasCheck(st, request, blockTime) ==
    LET r == tableSet(st, anchorTable, request.Cid,
                      TimestampProto(blockTime).timestamp)
    IN [err |-> r.err, st |-> r.st, resp |-> r.err = OK]

serverImpl_AnchorData(st, request, blockTime) ==
    LET cidBz == request.Cid
    IN IF tableHas(st, anchorTable, cidBz)
       THEN [err |-> sdkerrors_Wrap(ErrInvalidRequest), st |-> st, resp |-> FALSE]
       ELSE LET r == anchorCid(st, cidBz, blockTime)
            IN [err |-> r.err, st |-> r.st, resp |-> r.err = OK]

\* the merge loop: seen is filled from the stored signers only
RECURSIVE mergeSigners(_, _, _)
mergeSigners(signers, seen, requested) ==
    IF requested = <<>> THEN signers
    ELSE mergeSigners(IF Head(requested) \in seen THEN signers
                      ELSE Append(signers, Head(requested)),
                      seen, Tail(requested))

serverImpl_SignData(st, request, blockTime) ==
    LET cidBz == request.Cid
        a == anchorCidIfNeeded(st, cidBz, blockTime)
        got == tableGetOne(a.st, signersTable, cidBz)
        signers ==
            IF tableHas(a.st, signersTable, cidBz)
            THEN mergeSigners(got.ret.Signers,
                              {got.ret.Signers[i] : i \in 1..Len(got.ret.Signers)},
                              request.Signers)
            ELSE <<>>
        saved == tableSet(a.st, signersTable, cidBz, [Signers |-> signers])
    IN IF a.err # OK THEN [err |-> a.err, st |-> a.st, resp |-> FALSE]
       ELSE IF tableHas(a.st, signersTable, cidBz) /\ got.err # OK
            THEN [err |-> got.err, st |-> a.st, resp |-> FALSE]
       ELSE IF saved.err # OK THEN [err |-> saved.err, st |-> saved.st, resp |-> FALSE]
       ELSE [err |-> OK, st |-> saved.st, resp |-> TRUE]

serverImpl_StoreData_NoHasCheck(st, request, blockTime) ==
    LET cidBz == request.Cid
        a == anchorCidIfNeeded(st, cidBz, blockTime)
        cid == gocid_Cast(cidBz)
        mh == cid.Hash
        decodedMultihash == multihash_Decode(mh)
        reqMh == multihash_Sum(request.Content, decodedMultihash.Code)
    IN IF a.err # OK THEN [err |-> a.err, st |-> a.st, resp |-> FALSE]
       ELSE IF cid.err # OK
            THEN [err |-> sdkerrors_Wrap(ErrInvalidRequest), st |-> a.st,
                  resp |-> FALSE]
       ELSE IF decodedMultihash.err # OK
            THEN [err |-> sdkerrors_Wrap(decodedMultihash.err), st |-> a.st,
                  resp |-> FALSE]
       ELSE IF decodedMultihash.Name \notin {"sha2-256", "blake2b-256"}
            THEN [err |-> sdkerrors_Wrap(ErrInvalidRequest), st |-> a.st,
                  resp |-> FALSE]
       ELSE IF reqMh.err # OK
            THEN [err |-> sdkerrors_Wrap(reqMh.err), st |-> a.st, resp |-> FALSE]
       ELSE IF mh # reqMh.mh
            THEN [err |-> sdkerrors_Wrap(reqMh.err), st |-> a.st, resp |-> FALSE]
       ELSE [err |-> OK, st |-> StoreSet(a.st, cidBz, request.Content),
             resp |-> TRUE]

serverImpl_StoreData(st, request, blockTime) ==
    LET cidBz == request.Cid
        a == anchorCidIfNeeded(st, cidBz, blockTime)
        cid == gocid_Cast(cidBz)
        mh == cid.Hash
        decodedMultihash == multihash_Decode(mh)
        reqMh == multihash_Sum(request.Content, decodedMultihash.Code)
    IN IF a.err # OK THEN [err |-> a.err, st |-> a.st, resp |-> FALSE]
       ELSE IF Has(a.st, cidBz)
            THEN [err |-> sdkerrors_Wrap(ErrInvalidRequest), st |-> a.st,
                  resp |-> FALSE]
       ELSE IF cid.err # OK
            THEN [err |-> sdkerrors_Wrap(ErrInvalidRequest), st |-> a.st,
                  resp |-> FALSE]
       ELSE IF decodedMultihash.err # OK
            THEN [err |-> sdkerrors_Wrap(decodedMultihash.err), st |-> a.st,
                  resp |-> FALSE]
       ELSE IF decodedMultihash.Name \notin {"sha2-256", "blake2b-256"}
            THEN [err |-> sdkerrors_Wrap(ErrInvalidRequest), st |-> a.st,
                  resp |-> FALSE]
       ELSE IF reqMh.err # OK
            THEN [err |-> sdkerrors_Wrap(reqMh.err), st |-> a.st, resp |-> FALSE]
       ELSE IF mh # reqMh.mh
            THEN [err |-> sdkerrors_Wrap(reqMh.err), st |-> a.st, resp |-> FALSE]
       ELSE [err |-> OK, st |-> StoreSet(a.st, cidBz, request.Content),
             resp |-> TRUE]

-----------------------------------------------------------------------------
(* Calls on the data module.  The writes of a call that returns an error   *)
(* are discarded with its transaction.                                     *)

DataContents == {<<7>>, <<8>>}

CidOf(name, content) ==
    <<1, 85>> \o multihash_Sum(content, multihash_Code(name)).mh

BadCid == <<9>>

DataCids ==
    {CidOf("sha2-256", <<7>>), CidOf("blake2b-256", <<8>>),
     CidOf("sha1", <<7>>), BadCid}

\* the CIDs that are signed
SignedCids == {CidOf("sha2-256", <<7>>)}

DataSigners == {"addrA", "addrB"}

MaxRequestSigners == 2

RECURSIVE SignerListsOfLen(_)
SignerListsOfLen(n) ==
    IF n = 0 THEN {<<>>}
    ELSE {Append(l, s) : l \in SignerListsOfLen(n - 1), s \in DataSigners}

SignerLists == UNION {SignerListsOfLen(n) : n \in 0..MaxRequestSigners}

BlockTimes == {100, 200}

DataCall(name, cid, signers, content, blockTime, r) ==
    [name |-> name, request |-> [Cid |-> cid, Signers |-> signers,
                                 Content |-> content],
     blockTime |-> blockTime, err |-> r.err, resp |-> r.resp]

InitData ==
    /\ store = EmptyStore
    /\ issued = 0
    /\ handed = {}
    /\ freed = {}
    /\ op = DataCall("init", <<>>, <<>>, <<>>, 0,
                     [err |-> OK, resp |-> FALSE])

AnchorData ==
    \E cid \in DataCids, blockTime \in BlockTimes :
        \E r \in {serverImpl_AnchorData(store, [Cid |-> cid], blockTime)} :
           /\ store' = atomically(store, r).st
           /\ op' = DataCall("AnchorData", cid, <<>>, <<>>, blockTime, r)
           /\ UNCHANGED <<issued, handed, freed>>

SignData ==
    \E cid \in SignedCids, signers \in SignerLists, blockTime \in BlockTimes :
        \E r \in {serverImpl_SignData(store, [Cid |-> cid, Signers |-> signers],
                                     blockTime)} :
           /\ store' = atomically(store, r).st
           /\ op' = DataCall("SignData", cid, signers, <<>>, blockTime, r)
           /\ UNCHANGED <<issued, handed, freed>>

StoreData ==
    \E cid \in DataCids, content \in DataContents, blockTime \in BlockTimes :
        \E r \in {serverImpl_StoreData(store, [Cid |-> cid, Content |-> content],
                                      blockTime)} :
           /\ store' = atomically(store, r).st
           /\ op' = DataCall("StoreData", cid, <<>>, content, blockTime, r)
           /\ UNCHANGED <<issued, handed, freed>>

NextData == AnchorData \/ SignData \/ StoreData

SpecData == InitData /\ [][NextData]_vars

-----------------------------------------------------------------------------
(* Views of the data module's store *)

Anchored(st, cid) == Has(st, <<AnchorTablePrefix>> \o cid)

AnchorTimestamp(st, cid) == st[<<AnchorTablePrefix>> \o cid]

HasSigners(st, cid) == Has(st, <<SignersTablePrefix>> \o cid)

SignersOf(st, cid) ==
    IF HasSigners(st, cid) THEN st[<<SignersTablePrefix>> \o cid].Signers
    ELSE <<>>

SignerSet(st, cid) == {SignersOf(st, cid)[i] : i \in 1..Len(SignersOf(st, cid))}

NoSignerTwice(signers) ==
    \A i, j \in 1..Len(signers) : (signers[i] = signers[j]) => (i = j)

HashesTo(content, cid) ==
    /\ Len(cid) >= 3
    /\ SubSeq(cid, 3, Len(cid)) = <<cid[3], 1>> \o Digest(content, cid[3])

(* C25: after a successful SignData(cid, S) the signer list stored for cid  *)
(* contains every signer of S, whether or not a signer record existed       *)
(* before, and still contains every signer stored before the call.          *)
C25_SignDataAddsAndKeepsSigners ==
    [][(op'.name = "SignData" /\ op'.err = OK) =>
          LET cid == op'.request.Cid
              S == op'.request.Signers
          IN /\ \A i \in 1..Len(S) : S[i] \in SignerSet(store', cid)
             /\ SignerSet(store, cid) \subseteq SignerSet(store', cid)]_vars

\* a successful SignData that named a signer and stored an empty list
C25_SignerMissing ==
    /\ op.name = "SignData"
    /\ op.err = OK
    /\ op.request.Signers = <<"addrA">>
    /\ HasSigners(store, op.request.Cid)
    /\ SignersOf(store, op.request.Cid) = <<>>

(* When a signer record exists before the call, SignData does add every     *)
(* signer of the request and keeps the stored ones.                         *)
SignDataMergesIntoExistingRecord ==
    [][(op'.name = "SignData" /\ op'.err = OK
            /\ HasSigners(store, op'.request.Cid)) =>
          LET cid == op'.request.Cid
              S == op'.request.Signers
          IN /\ \A i \in 1..Len(S) : S[i] \in SignerSet(store', cid)
             /\ SignerSet(store, cid) \subseteq SignerSet(store', cid)]_vars

(* C26: StoreData(cid, content) whose content does not hash to the          *)
(* multihash of cid returns an error and writes no content under cid;       *)
(* content is written under cid only when it hashes to cid's multihash.     *)
C26_StoreDataRejectsMismatch ==
    [][/\ (op'.name = "StoreData"
              /\ ~HashesTo(op'.request.Content, op'.request.Cid))
          => /\ op'.err # OK
             /\ Has(store', op'.request.Cid) = Has(store, op'.request.Cid)
       /\ \A cid \in DataCids :
             (Has(store', cid) /\ ~Has(store, cid))
                => /\ op'.name = "StoreData"
                   /\ op'.request.Cid = cid
                   /\ HashesTo(op'.request.Content, cid)]_vars

\* StoreData with content of another hash, answered without an error
C26_MismatchAccepted ==
    /\ op.name = "StoreData"
    /\ op.request.Cid = CidOf("sha2-256", <<7>>)
    /\ op.request.Content = <<8>>
    /\ op.err = OK
    /\ ~op.resp
    /\ ~Has(store, op.request.Cid)
    /\ Anchored(store, op.request.Cid)

(* Content is written under a cid only by a StoreData call whose content    *)
(* hashes to the cid's multihash, and a mismatching call writes none.       *)
StoreDataWritesOnlyMatchingContent ==
    [][/\ (op'.name = "StoreData"
              /\ ~HashesTo(op'.request.Content, op'.request.Cid))
          => (Has(store', op'.request.Cid) = Has(store, op'.request.Cid))
       /\ \A cid \in DataCids :
             (Has(store', cid) /\ ~Has(store, cid))
                => /\ op'.name = "StoreData"
                   /\ op'.request.Cid = cid
                   /\ HashesTo(op'.request.Content, cid)]_vars

(* C27: in every reachable state the signer list stored for any cid         *)
(* contains no signer twice, also when one request lists a signer more      *)
(* than once.                                                               *)
C27_NoSignerTwice ==
    \A cid \in DataCids : NoSignerTwice(SignersOf(store, cid))

C27_SignerTwice ==
    /\ op.name = "SignData"
    /\ op.err = OK
    /\ op.request.Signers = <<"addrA", "addrA">>
    /\ SignersOf(store, op.request.Cid) = <<"addrA", "addrA">>

(* A request that lists no signer twice never puts a signer twice into a    *)
(* list that had none twice.                                                *)
NoSignerTwiceFromDistinctRequest ==
    [][(op'.name = "SignData" /\ NoSignerTwice(op'.request.Signers)
            /\ NoSignerTwice(SignersOf(store, op'.request.Cid)))
          => NoSignerTwice(SignersOf(store', op'.request.Cid))]_vars

(* C28: the anchor timestamp of a cid is write-once: AnchorData on an       *)
(* anchored cid returns an error, no call changes or removes the timestamp  *)
(* of an anchored cid, and a cid is anchored with the block time of the     *)
(* call that anchors it.                                                    *)
C28_AnchorTimestampWriteOnce ==
    [][\A cid \in DataCids :
          /\ Anchored(store, cid)
                => /\ Anchored(store', cid)
                   /\ AnchorTimestamp(store', cid) = AnchorTimestamp(store, cid)
                   /\ (op'.name = "AnchorData" /\ op'.request.Cid = cid)
                         => (op'.err # OK)
          /\ (~Anchored(store, cid) /\ Anchored(store', cid))
                => /\ op'.request.Cid = cid
                   /\ AnchorTimestamp(store', cid).Seconds = op'.blockTime]_vars

C28_Witness ==
    /\ op.name = "AnchorData"
    /\ op.err = ErrInvalidRequest
    /\ Anchored(store, op.request.Cid)
    /\ AnchorTimestamp(store, op.request.Cid).Seconds = 100
    /\ op.blockTime = 200

C28_WitnessSignOnAnchored ==
    /\ op.name = "SignData"
    /\ op.err = OK
    /\ AnchorTimestamp(store, op.request.Cid).Seconds = 100
    /\ op.blockTime = 200

====
